---- MODULE Spec2Model ----
(***************************************************************************)
(* Fluorine-Chess: the search driver (MainThread::search, Thread::search), *)
(* the recursive search()/qsearch() nodes, the time check and the command  *)
(* loop, as state machines.                                                *)
(*                                                                         *)
(* Spec        the thread pool: command loop, main thread, helper threads, *)
(*             each root search seen from outside (node visits, return).   *)
(* SpecMate    the same under a mate-search limit.                         *)
(* SpecSearch  one root search followed call by call: Step 2, null move,   *)
(*             ProbCut, singular search, LMR, undo and the stop check.     *)
(* SpecMoves   the callers of Position::do_move: position, moves, perft,   *)
(*             the opening book and the search's move loops.               *)
(* SpecTT      the probe and the final save of a transposition-table       *)
(*             entry, value_to_tt and value_from_tt.                       *)
(* SpecKey     Position::key() along two move orders.                      *)
(* SpecPieces  put_piece, remove_piece and move_piece on the piece tables. *)
(* SpecPerft   the root perft with one task per root move.                 *)
(* SpecAsp     the aspiration loop of Thread::search (SpecAspFair: with    *)
(*             the thread kept running).                                   *)
(* SpecPly     the recursion of search() and qsearch() over the stack.     *)
(* SpecStep2   the first lines of a search() call, up to Step 2.           *)
(* SpecNode    one search() node: its window, its move loop and Step 21.   *)
(* SpecExt     ss->doubleExtensions along one path of the search tree.     *)
(* SpecCut     the early returns of search() and qsearch().                *)
(* SpecQs      one qsearch() call.                                         *)
(***************************************************************************)
EXTENDS Integers, Sequences, FiniteSets, TLC

(***************************************************************************)
(* Program constants. Value and MAX_PLY are declared in types.h, which is  *)
(* not among the sources; the numbers are those the code relies on.        *)
(***************************************************************************)
VALUE_ZERO == 0
VALUE_DRAW == 0
VALUE_MATE == 32000
VALUE_INFINITE == 32001
MAX_PLY == 246
VALUE_MATE_IN_MAX_PLY == VALUE_MATE - MAX_PLY
VALUE_MATED_IN_MAX_PLY == -VALUE_MATE_IN_MAX_PLY
\* check_time(): the polling period when no node limit is given
CallsCntPeriod == 512

(***************************************************************************)
(* Bounds of the model.                                                    *)
(***************************************************************************)
\* deepest root iteration a thread gets to start before the run is cut
MaxRootDepth == 2
\* nodes one root search gets to visit below the root
MaxNodes == 1
\* clock ticks during one go
MaxElapsed == 3
\* go commands per run
MaxGo == 1

Min(a, b) == IF a < b THEN a ELSE b
Max(a, b) == IF a > b THEN a ELSE b
Abs(a) == IF a < 0 THEN -a ELSE a
\* C++ integer division truncates toward zero
CDiv(a, b) == IF a >= 0 THEN a \div b ELSE -((-a) \div b)

(***************************************************************************)
(* Threads.                                                                *)
(***************************************************************************)
Main == "main"
Helpers == {"h1"}
Workers == {Main} \cup Helpers

(***************************************************************************)
(* Moves, as from/to squares. Move::none() is a1a1, Move::null() is b1b1.  *)
(***************************************************************************)
MoveNone == <<"a1", "a1">>
MoveNull == <<"b1", "b1">>
RootMoveList == << <<"e2", "e4">>, <<"d2", "d4">> >>

UciMove_NoneAsNull(m) ==
    IF m = MoveNone \/ m = MoveNull THEN "0000" ELSE m[1] \o m[2]

\* UCI::move
UciMove(m) ==
    IF m = MoveNone THEN "(none)"
    ELSE IF m = MoveNull THEN "0000"
    ELSE m[1] \o m[2]

\* RootMove(Move m): pv(1, m), scores at -VALUE_INFINITE
RootMove(m) ==
    [pv |-> <<m>>, score |-> -VALUE_INFINITE, previousScore |-> -VALUE_INFINITE,
     averageScore |-> -VALUE_INFINITE]

\* RootMove::operator< : descending score, then descending previousScore
RootMoveBefore(a, b) ==
    IF a.score # b.score THEN a.score > b.score ELSE a.previousScore > b.previousScore

\* std::stable_sort(first, last) on the 1-based positions lo..hi of s
RECURSIVE InsertSorted(_, _)
InsertSorted(s, x) ==
    IF s = <<>> THEN <<x>>
    ELSE IF RootMoveBefore(x, s[Len(s)]) THEN Append(InsertSorted(SubSeq(s, 1, Len(s) - 1), x), s[Len(s)])
    ELSE Append(s, x)

RECURSIVE StableSort(_)
StableSort(s) ==
    IF s = <<>> THEN <<>>
    ELSE InsertSorted(StableSort(SubSeq(s, 1, Len(s) - 1)), s[Len(s)])

StableSortRange(s, lo, hi) ==
    SubSeq(s, 1, lo - 1) \o StableSort(SubSeq(s, lo, hi)) \o SubSeq(s, hi + 1, Len(s))

(***************************************************************************)
(* Limits of a go command (Search::LimitsType).                            *)
(***************************************************************************)
NoLimits ==
    [depth |-> 0, mate |-> 0, infinite |-> FALSE, movetime |-> 0, nodes |-> 0,
     time |-> 0, perft |-> 0]

\* what a go command comes with: the limits, the ponder word, the number of
\* legal root moves of the position, and the MultiPV, classic and Threads
\* options
GoInput(l, pm, n, mpv, classic, threads) ==
    [limits |-> l, ponderMode |-> pm, moves |-> n, multiPV |-> mpv, classic |-> classic,
     threads |-> threads]

GoInputs ==
    { GoInput([NoLimits EXCEPT !.depth = 1], FALSE, 1, 1, FALSE, 2),
      GoInput([NoLimits EXCEPT !.depth = 1], FALSE, 2, 2, FALSE, 1),
      GoInput([NoLimits EXCEPT !.depth = 1], FALSE, 0, 1, FALSE, 1),
      GoInput([NoLimits EXCEPT !.infinite = TRUE], FALSE, 1, 1, TRUE, 1),
      GoInput([NoLimits EXCEPT !.infinite = TRUE], FALSE, 0, 1, FALSE, 2),
      GoInput([NoLimits EXCEPT !.time = 2], FALSE, 1, 1, FALSE, 1),
      GoInput([NoLimits EXCEPT !.time = 2], TRUE, 1, 1, FALSE, 1),
      GoInput([NoLimits EXCEPT !.time = 2], TRUE, 0, 1, FALSE, 1),
      GoInput([NoLimits EXCEPT !.movetime = 2], FALSE, 1, 1, FALSE, 1),
      GoInput([NoLimits EXCEPT !.nodes = 2], FALSE, 1, 1, FALSE, 1),
      GoInput([NoLimits EXCEPT !.nodes = 2], TRUE, 1, 1, FALSE, 1),
      GoInput([NoLimits EXCEPT !.mate = 1], FALSE, 1, 1, FALSE, 1),
      GoInput([NoLimits EXCEPT !.mate = -1], FALSE, 1, 1, FALSE, 1),
      GoInput([NoLimits EXCEPT !.mate = 1], TRUE, 1, 1, FALSE, 1),
      GoInput([NoLimits EXCEPT !.perft = 2], FALSE, 2, 1, FALSE, 1) }

\* mate searches on two threads
MateInputs ==
    { GoInput([NoLimits EXCEPT !.mate = 1], FALSE, 1, 1, FALSE, 2),
      GoInput([NoLimits EXCEPT !.mate = -1], FALSE, 1, 1, FALSE, 1) }

\* LimitsType::use_time_management
UseTimeManagement(l) == l.time # 0

\* values a completed root search hands back
RootValues == {-(VALUE_MATE - 2), 20, VALUE_MATE - 1}

\* totalTime of the time-management test (optimum scaled by the eval and
\* best-move stability factors)
TotalTimes == {1, 2}

VARIABLES
    uciRunning,     \* the command loop has not read quit
    goCount,        \* go commands so far
    stop,           \* Threads.stop
    ponder,         \* MainThread::ponder
    stopOnPonderhit,\* MainThread::stopOnPonderhit
    increaseDepth,  \* Threads.increaseDepth
    limits,         \* Search::Limits
    multiPVOpt,     \* Options["MultiPV"]
    useClassic,     \* the global useClassic (classic search and evaluation)
    pool,           \* Threads: the threads of the pool (Options["Threads"])
    searching,      \* Thread::searching, per thread
    mpc,            \* where the main thread is in MainThread::search
    th,             \* per thread: the locals and members Thread::search works on
    rm,             \* per thread: rootMoves
    callsCnt,       \* MainThread::callsCnt
    elapsed,        \* Time.elapsed(), followed when a time limit reads it
    nodes,          \* Threads.nodes_searched(), followed when a node limit reads it
    out,            \* lines written to the GUI by MainThread::search
    hist,           \* history of the current go (see HistInit)
    node,           \* the search() calls of the main thread in progress (see NodeInit)
    game,           \* the board of the command loop, the book, and the moves the
                    \* last command made on a board (see GameInit)
    tt,             \* a transposition-table entry and the node that probes or saves it
    board,          \* a Position: piece tables, key, StateInfo chain
    asp,            \* the aspiration window of one root move of Thread::search
    rec,            \* the chain of search() and qsearch() calls in progress, with their
                    \* stack frames
    aNode           \* one node of search() or qsearch(): what it is called with, what
                    \* the position and the table give it, and what it returns

vars == <<uciRunning, goCount, stop, ponder, stopOnPonderhit, increaseDepth, limits,
          multiPVOpt, useClassic, pool, searching, mpc, th, rm, callsCnt, elapsed, nodes, out,
          hist, node, game, tt, board, asp, rec, aNode>>

\* the variables of the thread pool and of the search() calls
searchVars == <<uciRunning, goCount, stop, ponder, stopOnPonderhit, increaseDepth, limits,
                multiPVOpt, useClassic, pool, searching, mpc, th, rm, callsCnt, elapsed, nodes,
                out, hist, node>>

(***************************************************************************)
(* Thread::search works on these; start_thinking clears them.              *)
(***************************************************************************)
ThreadInit ==
    [pc |-> "idle", rootDepth |-> 0, completedDepth |-> 0, multiPV |-> 0,
     pvIdx |-> 0, pvFirst |-> 0, pvLast |-> 0, alpha |-> 0, beta |-> 0, delta |-> 0,
     failedHighCnt |-> 0, searchAgainCounter |-> 0, adjustedDepth |-> 0,
     bestValue |-> 0, visits |-> 0]

\* budgetStopPonder  a time or node budget test set stop while ponder was true
\* ponderSkip        check_time left at its ponder test with the budget used up
\* sop               "recorded": the end-of-iteration test set stopOnPonderhit
\*                   while pondering; "hit": ponderhit came after that; then
\*                   the outcome of the next check_time that got to its
\*                   budget test: "late" when stop was set already,
\*                   "stopped" when the check set it, else "missed" with the
\*                   flag cleared meanwhile or "ignored" with it still set
\* waitOk            what the busy wait of MainThread::search saw when it ended
\* helpersStarted    Threads.start_searching was called
\* rootEmpty         the position of the go had no legal move
HistInit ==
    [budgetStopPonder |-> FALSE, ponderSkip |-> FALSE, sop |-> "none", waitOk |-> "none",
     helpersStarted |-> FALSE, rootEmpty |-> FALSE]

\* stack   the frames of the search() calls in progress, the root call first
\* ret     what the call that returned last handed back, until the caller
\*         has read it: the value, and whether the call was aborted
\* writes  where the step just taken wrote values returned by search()
\*         calls to
NoRet ==
    [value |-> 0, aborted |-> FALSE, set |-> FALSE, bestValue |-> 0, bestMove |-> FALSE,
     st |-> 0]

NodeInit == [stack |-> <<>>, ret |-> NoRet, writes |-> {}]

\* a position: the position it was set up from and the moves made since
StartPos == [base |-> "startpos", line |-> <<>>]

\* book      the opening book as Book::init built it, empty before
\* pos       the position of the command loop
\* made      the calls of Position::do_move of the last command: the call
\*           site, the move, and whether the move was legal in the position
\*           it was made in
GameInit == [book |-> <<>>, pos |-> StartPos, made |-> {}]

\* the engine before the first command
EngineInit ==
    /\ uciRunning = TRUE
    /\ goCount = 0
    /\ stop = FALSE
    /\ ponder = FALSE
    /\ stopOnPonderhit = FALSE
    /\ increaseDepth = TRUE
    /\ limits = NoLimits
    /\ multiPVOpt = 1
    /\ useClassic = FALSE
    /\ pool = Workers
    /\ searching = [t \in Workers |-> FALSE]
    /\ mpc = "idle"
    /\ th = [t \in Workers |-> ThreadInit]
    /\ rm = [t \in Workers |-> <<>>]
    /\ callsCnt = 0
    /\ elapsed = 0
    /\ nodes = 0
    /\ out = <<>>
    /\ hist = HistInit
    /\ node = NodeInit
    /\ game = GameInit

Init ==
    /\ EngineInit
    /\ tt = <<>>
    /\ aNode = <<>>
    /\ rec = <<>>
    /\ board = <<>>
    /\ asp = <<>>

(***************************************************************************)
(* The command loop (UCI::loop). go hands over to                          *)
(* ThreadPool::start_thinking, which waits for the previous search, clears *)
(* stop and stopOnPonderhit, sets ponder, builds the root moves from the   *)
(* legal moves and wakes the main thread.                                  *)
(***************************************************************************)
StartThinking(g) ==
    /\ ~searching[Main]
    /\ stop' = FALSE
    /\ stopOnPonderhit' = FALSE
    /\ increaseDepth' = TRUE
    /\ ponder' = g.ponderMode
    /\ limits' = g.limits
    /\ multiPVOpt' = g.multiPV
    /\ useClassic' = g.classic
    /\ pool' = IF g.threads = 1 THEN {Main} ELSE Workers
    /\ rm' = [t \in Workers |->
                IF t = Main \/ g.threads > 1
                THEN [i \in 1..g.moves |-> RootMove(RootMoveList[i])] ELSE <<>>]
    /\ th' = [t \in Workers |-> ThreadInit]
    /\ searching' = [searching EXCEPT ![Main] = TRUE]
    /\ mpc' = "begin"
    /\ elapsed' = 0
    /\ nodes' = 0

GoFrom(inputs) ==
    /\ uciRunning
    /\ goCount < MaxGo
    /\ \E g \in inputs :
          /\ StartThinking(g)
          /\ hist' = [HistInit EXCEPT !.rootEmpty = (g.moves = 0)]
    /\ goCount' = goCount + 1
    /\ out' = <<>>
    /\ UNCHANGED <<tt, board, asp, rec, aNode, game, node, uciRunning, callsCnt>>

UciGo == GoFrom(GoInputs)

UciStop ==
    /\ uciRunning
    /\ stop' = TRUE
    /\ UNCHANGED <<tt, board, asp, rec, aNode, game, node, uciRunning, goCount, ponder, stopOnPonderhit, increaseDepth, limits,
                   multiPVOpt, useClassic, pool, searching, mpc, th, rm, callsCnt, elapsed, nodes,
                   out, hist>>

UciQuit ==
    /\ uciRunning
    /\ uciRunning' = FALSE
    /\ stop' = TRUE
    /\ UNCHANGED <<tt, board, asp, rec, aNode, game, node, goCount, ponder, stopOnPonderhit, increaseDepth, limits,
                   multiPVOpt, useClassic, pool, searching, mpc, th, rm, callsCnt, elapsed, nodes,
                   out, hist>>

UciPonderhit ==
    /\ uciRunning
    /\ ponder' = FALSE
    /\ hist' = [hist EXCEPT !.sop = IF @ = "recorded" /\ ponder THEN "hit" ELSE @]
    /\ UNCHANGED <<tt, board, asp, rec, aNode, game, node, uciRunning, goCount, stop, stopOnPonderhit, increaseDepth, limits,
                   multiPVOpt, useClassic, pool, searching, mpc, th, rm, callsCnt, elapsed, nodes,
                   out>>

\* the clock
Tick ==
    /\ searching[Main]
    /\ UseTimeManagement(limits) \/ limits.movetime # 0
    /\ elapsed < MaxElapsed
    /\ elapsed' = elapsed + 1
    /\ UNCHANGED <<tt, board, asp, rec, aNode, game, node, uciRunning, goCount, stop, ponder, stopOnPonderhit, increaseDepth, limits,
                   multiPVOpt, useClassic, pool, searching, mpc, th, rm, callsCnt, nodes, out, hist>>

(***************************************************************************)
(* MainThread::search                                                      *)
(***************************************************************************)
BookMove == <<"c2", "c4">>

\* perft branch, book lookup, the no-legal-move branch, or the start of the pool
MainBegin ==
    /\ mpc = "begin"
    /\ IF limits.perft # 0
       THEN /\ out' = Append(out, [kind |-> "perft", text |-> "Nodes searched"])
            /\ mpc' = "idle"
            /\ searching' = [searching EXCEPT ![Main] = FALSE]
            /\ UNCHANGED <<rm, th, hist>>
       ELSE \E book \in (IF limits.mate = 0 THEN BOOLEAN ELSE {FALSE}) :
            IF book
            THEN /\ rm' = [rm EXCEPT ![Main] = <<RootMove(BookMove)>>]
                 /\ mpc' = "wait"
                 /\ UNCHANGED <<out, searching, th, hist>>
            ELSE IF rm[Main] = <<>>
            THEN /\ rm' = [rm EXCEPT ![Main] = <<RootMove(MoveNone)>>]
                 /\ mpc' = "wait"
                 /\ UNCHANGED <<out, searching, th, hist>>
            ELSE /\ searching' = [t \in Workers |-> t \in pool]
                 /\ th' = [t \in Workers |->
                              IF t \in pool THEN [th[t] EXCEPT !.pc = "start"] ELSE th[t]]
                 /\ mpc' = "thsearch"
                 /\ hist' = [hist EXCEPT !.helpersStarted = TRUE]
                 /\ UNCHANGED <<out, rm>>
    /\ UNCHANGED <<tt, board, asp, rec, aNode, game, node, uciRunning, goCount, stop, ponder, stopOnPonderhit, increaseDepth, limits,
                   multiPVOpt, useClassic, pool, callsCnt, elapsed, nodes>>

MainBusyWait_NoWait ==
    /\ mpc = "wait"
    /\ stop' = TRUE
    /\ hist' = [hist EXCEPT !.waitOk = IF stop THEN "stop"
                                       ELSE IF ponder \/ limits.infinite THEN "early"
                                       ELSE "free"]
    /\ mpc' = "join"
    /\ UNCHANGED <<tt, board, asp, rec, aNode, game, node, uciRunning, goCount, ponder, stopOnPonderhit, increaseDepth, limits,
                   multiPVOpt, useClassic, pool, searching, th, rm, callsCnt, elapsed,
                   nodes, out>>

\* the busy wait for a stop or a ponder reset, then Threads.stop = true
MainBusyWait ==
    /\ mpc = "wait"
    /\ ~(~stop /\ (ponder \/ limits.infinite))
    /\ stop' = TRUE
    /\ hist' = [hist EXCEPT !.waitOk = IF stop THEN "stop"
                                       ELSE IF ponder \/ limits.infinite THEN "early"
                                       ELSE "free"]
    /\ mpc' = "join"
    /\ UNCHANGED <<tt, board, asp, rec, aNode, game, node, uciRunning, goCount, ponder, stopOnPonderhit, increaseDepth, limits,
                   multiPVOpt, useClassic, pool, searching, th, rm, callsCnt, elapsed, nodes, out>>

\* ThreadPool::get_best_thread: the highest (completedDepth, score), the main
\* thread when it is among the highest
RankBefore(a, b) ==
    IF th[a].completedDepth # th[b].completedDepth
    THEN th[a].completedDepth > th[b].completedDepth
    ELSE rm[a][1].score > rm[b][1].score

GetBestThread ==
    LET cand == {t \in pool : rm[t] # <<>>}
        top == {t \in cand : \A u \in cand : ~RankBefore(u, t)}
    IN IF Main \in top THEN {Main} ELSE top

\* Threads.wait_for_search_finished, the choice of the best thread, the bestmove line
MainFinish ==
    /\ mpc = "join"
    /\ \A h \in pool \ {Main} : ~searching[h]
    /\ \E bt \in (IF multiPVOpt = 1 /\ limits.depth = 0 /\ rm[Main][1].pv[1] # MoveNone
                  THEN GetBestThread ELSE {Main}) :
          out' = Append(out, [kind |-> "bestmove",
                              text |-> "bestmove " \o UciMove(rm[bt][1].pv[1])])
    /\ mpc' = "idle"
    /\ searching' = [searching EXCEPT ![Main] = FALSE]
    /\ UNCHANGED <<tt, board, asp, rec, aNode, game, node, uciRunning, goCount, stop, ponder, stopOnPonderhit, increaseDepth, limits,
                   multiPVOpt, useClassic, pool, th, rm, callsCnt, elapsed, nodes, hist>>

(***************************************************************************)
(* MainThread::check_time, called by the main thread at every search()     *)
(* node. The result is the new callsCnt and stop, and whether the call got *)
(* past the callsCnt gate and past the ponder test.                        *)
(***************************************************************************)
TimeMaximum == limits.time

BudgetExpired_NoPonderhit ==
    \/ UseTimeManagement(limits) /\ elapsed > TimeMaximum
    \/ limits.movetime # 0 /\ elapsed >= limits.movetime
    \/ limits.nodes # 0 /\ nodes >= limits.nodes

BudgetExpired ==
    \/ UseTimeManagement(limits) /\ (elapsed > TimeMaximum \/ stopOnPonderhit)
    \/ limits.movetime # 0 /\ elapsed >= limits.movetime
    \/ limits.nodes # 0 /\ nodes >= limits.nodes

CheckTime_NoPonderTest(cc) ==
    IF cc - 1 > 0
    THEN [callsCnt |-> cc - 1, performed |-> FALSE, tested |-> FALSE, stop |-> stop]
    ELSE [callsCnt |-> CallsCntPeriod, performed |-> TRUE, tested |-> TRUE,
          stop |-> (stop \/ BudgetExpired)]

CheckTime(cc) ==
    IF cc - 1 > 0
    THEN [callsCnt |-> cc - 1, performed |-> FALSE, tested |-> FALSE, stop |-> stop]
    ELSE LET reset == IF limits.nodes # 0 THEN Min(CallsCntPeriod, limits.nodes \div 1024)
                      ELSE CallsCntPeriod
         IN IF ponder
            THEN [callsCnt |-> reset, performed |-> TRUE, tested |-> FALSE, stop |-> stop]
            ELSE [callsCnt |-> reset, performed |-> TRUE, tested |-> TRUE,
                  stop |-> (stop \/ BudgetExpired)]

\* the history after a call of check_time with result r
HistAfterCheck(r) ==
    [hist EXCEPT
       !.budgetStopPonder = @ \/ (r.tested /\ BudgetExpired /\ ponder),
       !.ponderSkip = @ \/ (r.performed /\ ~r.tested /\ BudgetExpired),
       !.sop = IF r.tested /\ @ = "hit"
               THEN (IF stop THEN "late"
                     ELSE IF r.stop THEN "stopped"
                     ELSE IF stopOnPonderhit THEN "ignored" ELSE "missed")
               ELSE @]

(***************************************************************************)
(* Thread::search, thread t.                                               *)
(***************************************************************************)
InBody(t) == th[t].pc \in {"pv", "asp", "search", "post", "pvend", "iterend", "tm"}

\* the code before the iterative deepening loop
ThStart(t) ==
    /\ th[t].pc = "start"
    /\ th' = [th EXCEPT ![t] =
                 [@ EXCEPT !.pc = "id",
                           !.bestValue = -VALUE_INFINITE,
                           !.delta = IF useClassic THEN -VALUE_INFINITE ELSE @,
                           !.alpha = IF useClassic THEN -VALUE_INFINITE ELSE @,
                           !.beta = IF useClassic THEN VALUE_INFINITE ELSE @,
                           !.multiPV = Min(multiPVOpt, Len(rm[t]))]]
    /\ UNCHANGED <<tt, board, asp, rec, aNode, game, node, uciRunning, goCount, stop, ponder, stopOnPonderhit, increaseDepth, limits,
                   multiPVOpt, useClassic, pool, searching, mpc, rm, callsCnt, elapsed, nodes, out, hist>>

IterCond_NoDepthLimit(t, d) ==
    /\ d < MAX_PLY
    /\ ~stop

\* the condition of the iterative deepening loop, for the incremented rootDepth d
IterCond(t, d) ==
    /\ d < MAX_PLY
    /\ ~stop
    /\ ~(limits.depth # 0 /\ t = Main /\ d > limits.depth)

\* the head of the iterative deepening loop and the first lines of its body
ThIterHead(t) ==
    /\ th[t].pc = "id"
    /\ LET d == th[t].rootDepth + 1 IN
       /\ IterCond(t, d) => d <= MaxRootDepth
       /\ IF IterCond(t, d)
          THEN /\ rm' = [rm EXCEPT ![t] =
                            [i \in 1..Len(@) |-> [@[i] EXCEPT !.previousScore = rm[t][i].score]]]
               /\ th' = [th EXCEPT ![t] =
                            [@ EXCEPT !.pc = "pv", !.rootDepth = d, !.pvFirst = 0,
                                      !.pvLast = 0, !.pvIdx = 0,
                                      !.searchAgainCounter =
                                          IF ~increaseDepth THEN @ + 1 ELSE @]]
          ELSE /\ th' = [th EXCEPT ![t] = [@ EXCEPT !.pc = "exit", !.rootDepth = d]]
               /\ UNCHANGED rm
    /\ UNCHANGED <<tt, board, asp, rec, aNode, game, node, uciRunning, goCount, stop, ponder, stopOnPonderhit, increaseDepth, limits,
                   multiPVOpt, useClassic, pool, searching, mpc, callsCnt, elapsed, nodes, out, hist>>

\* the aspiration window around the average score of the line's root move
AspirationDelta(avg) ==
    IF useClassic THEN 10 + CDiv(avg * avg, 15620) ELSE 9 + CDiv(avg * avg, 14847)

\* the head of the MultiPV loop and the lines before the aspiration loop
ThPvHead(t) ==
    /\ th[t].pc = "pv"
    /\ IF th[t].pvIdx < th[t].multiPV /\ ~stop
       THEN LET newGroup == th[t].pvIdx = th[t].pvLast
                avg == rm[t][th[t].pvIdx + 1].averageScore
                reset == ~useClassic \/ th[t].rootDepth >= 4
                dl == AspirationDelta(avg)
            IN th' = [th EXCEPT ![t] =
                         [@ EXCEPT !.pc = "asp",
                                   !.pvFirst = IF newGroup THEN th[t].pvLast ELSE @,
                                   !.pvLast = IF newGroup THEN Len(rm[t]) ELSE @,
                                   !.delta = IF reset THEN dl ELSE @,
                                   !.alpha = IF reset THEN Max(avg - dl, -VALUE_INFINITE) ELSE @,
                                   !.beta = IF reset THEN Min(avg + dl, VALUE_INFINITE) ELSE @,
                                   !.failedHighCnt = 0]]
       ELSE th' = [th EXCEPT ![t] = [@ EXCEPT !.pc = "iterend"]]
    /\ UNCHANGED <<tt, board, asp, rec, aNode, game, node, uciRunning, goCount, stop, ponder, stopOnPonderhit, increaseDepth, limits,
                   multiPVOpt, useClassic, pool, searching, mpc, rm, callsCnt, elapsed, nodes, out, hist>>

\* the first lines of the aspiration loop and the entry of the root search()
ThCallSearch(t) ==
    /\ th[t].pc = "asp"
    /\ th' = [th EXCEPT ![t] =
                 [@ EXCEPT !.pc = "search",
                           !.visits = 0,
                           !.adjustedDepth =
                               Max(1, th[t].rootDepth - th[t].failedHighCnt
                                      - (3 * (th[t].searchAgainCounter + 1)) \div 4)]]
    /\ IF t = Main
       THEN LET r == CheckTime(callsCnt) IN
            /\ callsCnt' = r.callsCnt
            /\ stop' = r.stop
            /\ hist' = HistAfterCheck(r)
       ELSE UNCHANGED <<callsCnt, stop, hist>>
    /\ UNCHANGED <<tt, board, asp, rec, aNode, game, node, uciRunning, goCount, ponder, stopOnPonderhit, increaseDepth, limits,
                   multiPVOpt, useClassic, pool, searching, mpc, rm, elapsed, nodes, out>>

\* one move made below the root and the search() node entered after it; a
\* tablebase probe at the node resets the main thread's callsCnt
ThSearchNode(t) ==
    /\ th[t].pc = "search"
    /\ th[t].visits < MaxNodes
    /\ nodes' = IF limits.nodes # 0 THEN nodes + 1 ELSE nodes
    /\ th' = [th EXCEPT ![t] = [@ EXCEPT !.visits = @ + 1]]
    /\ IF t = Main
       THEN LET r == CheckTime(callsCnt) IN
            /\ \E tbProbe \in BOOLEAN :
                  callsCnt' = IF tbProbe /\ ~r.stop THEN 0 ELSE r.callsCnt
            /\ stop' = r.stop
            /\ hist' = HistAfterCheck(r)
       ELSE UNCHANGED <<callsCnt, stop, hist>>
    /\ UNCHANGED <<tt, board, asp, rec, aNode, game, node, uciRunning, goCount, ponder, stopOnPonderhit, increaseDepth, limits,
                   multiPVOpt, useClassic, pool, searching, mpc, rm, elapsed, out>>

(***************************************************************************)
(* The move loop of the root node, seen from outside: the moves of the     *)
(* line's group in turn, each with the value its subtree returned.         *)
(***************************************************************************)
RootStep(acc, j, value, first, beta) ==
    IF acc.cut THEN acc
    ELSE [rms |-> [acc.rms EXCEPT ![j] =
                      [@ EXCEPT !.averageScore =
                                    IF @ # -VALUE_INFINITE THEN CDiv(2 * value + @, 3)
                                    ELSE value,
                                !.score =
                                    IF first \/ value > acc.alpha THEN value
                                    ELSE -VALUE_INFINITE]],
          best |-> Max(acc.best, value),
          alpha |-> IF value > acc.alpha /\ value < beta THEN value ELSE acc.alpha,
          cut |-> value > acc.alpha /\ value >= beta]

RECURSIVE RootLoop(_, _, _, _, _, _)
RootLoop(acc, j, lo, n, xs, beta) ==
    IF j - lo >= n THEN acc
    ELSE RootLoop(RootStep(acc, j, xs[j], j = lo, beta), j + 1, lo, n, xs, beta)

\* the return of the root search() and the stable_sort after it
ThSearchReturn(t) ==
    /\ th[t].pc = "search"
    /\ th[t].visits > 0
    /\ LET lo == th[t].pvIdx + 1
           hi == th[t].pvLast
           start == [rms |-> rm[t], best |-> -VALUE_INFINITE, alpha |-> th[t].alpha,
                     cut |-> FALSE]
       IN \E xs \in [lo..hi -> RootValues] :
          \E n \in (IF stop THEN 0..(hi - lo) ELSE {hi - lo + 1}) :
             LET acc == RootLoop(start, lo, lo, n, xs, th[t].beta) IN
             /\ stop => ~acc.cut
             /\ rm' = [rm EXCEPT ![t] = StableSortRange(acc.rms, lo, hi)]
             /\ th' = [th EXCEPT ![t] =
                          [@ EXCEPT !.pc = "post",
                                    !.bestValue = IF stop THEN VALUE_ZERO ELSE acc.best]]
    /\ UNCHANGED <<tt, board, asp, rec, aNode, game, node, uciRunning, goCount, stop, ponder, stopOnPonderhit, increaseDepth, limits,
                   multiPVOpt, useClassic, pool, searching, mpc, callsCnt, elapsed, nodes, out, hist>>

\* the rest of the aspiration loop: break on stop, widen on a fail, or leave
ThPostSearch(t) ==
    /\ th[t].pc = "post"
    /\ LET bv == th[t].bestValue
           grown == th[t].delta + (IF useClassic THEN CDiv(th[t].delta, 4) + 2
                                   ELSE CDiv(th[t].delta, 3))
       IN IF stop
          THEN /\ th' = [th EXCEPT ![t] = [@ EXCEPT !.pc = "pvend"]]
               /\ UNCHANGED stopOnPonderhit
          ELSE IF bv <= th[t].alpha
          THEN /\ th' = [th EXCEPT ![t] =
                            [@ EXCEPT !.pc = "asp",
                                      !.beta = CDiv(th[t].alpha + th[t].beta, 2),
                                      !.alpha = Max(bv - th[t].delta, -VALUE_INFINITE),
                                      !.failedHighCnt = 0,
                                      !.delta = grown]]
               /\ stopOnPonderhit' = IF t = Main THEN FALSE ELSE stopOnPonderhit
          ELSE IF bv >= th[t].beta
          THEN /\ th' = [th EXCEPT ![t] =
                            [@ EXCEPT !.pc = "asp",
                                      !.beta = Min(bv + th[t].delta, VALUE_INFINITE),
                                      !.failedHighCnt = @ + 1,
                                      !.delta = grown]]
               /\ UNCHANGED stopOnPonderhit
          ELSE /\ th' = [th EXCEPT ![t] = [@ EXCEPT !.pc = "pvend"]]
               /\ UNCHANGED stopOnPonderhit
    /\ UNCHANGED <<tt, board, asp, rec, aNode, game, node, uciRunning, goCount, stop, ponder, increaseDepth, limits,
                   multiPVOpt, useClassic, pool, searching, mpc, rm, callsCnt, elapsed, nodes, out, hist>>

\* the sort of the lines searched so far and the step of the MultiPV loop
ThPvEnd(t) ==
    /\ th[t].pc = "pvend"
    /\ rm' = [rm EXCEPT ![t] = StableSortRange(@, th[t].pvFirst + 1, th[t].pvIdx + 1)]
    /\ th' = [th EXCEPT ![t] = [@ EXCEPT !.pc = "pv", !.pvIdx = @ + 1]]
    /\ UNCHANGED <<tt, board, asp, rec, aNode, game, node, uciRunning, goCount, stop, ponder, stopOnPonderhit, increaseDepth, limits,
                   multiPVOpt, useClassic, pool, searching, mpc, callsCnt, elapsed, nodes, out, hist>>

MateFound_Never(bv) == FALSE

\* "Have we found a mate in x?" / "mated in x?"
MateFound(bv) ==
    \/ limits.mate > 0 /\ bv >= VALUE_MATE_IN_MAX_PLY /\ VALUE_MATE - bv <= 2 * limits.mate
    \/ limits.mate < 0 /\ bv <= VALUE_MATED_IN_MAX_PLY /\ VALUE_MATE + bv <= -2 * limits.mate

\* after the MultiPV loop: completedDepth and the mate tests
ThIterEnd(t) ==
    /\ th[t].pc = "iterend"
    /\ th' = [th EXCEPT ![t] =
                 [@ EXCEPT !.pc = IF t = Main THEN "tm" ELSE "id",
                           !.completedDepth = IF ~stop THEN th[t].rootDepth ELSE @]]
    /\ stop' = (stop \/ MateFound(th[t].bestValue))
    /\ UNCHANGED <<tt, board, asp, rec, aNode, game, node, uciRunning, goCount, ponder, stopOnPonderhit, increaseDepth, limits,
                   multiPVOpt, useClassic, pool, searching, mpc, rm, callsCnt, elapsed, nodes, out, hist>>

\* main thread only: "Do we have time for the next iteration?"
ThTimeMgmt ==
    /\ th[Main].pc = "tm"
    /\ th' = [th EXCEPT ![Main] = [@ EXCEPT !.pc = "id"]]
    /\ IF UseTimeManagement(limits) /\ ~stop /\ ~stopOnPonderhit
       THEN \E totalTime \in TotalTimes :
            IF elapsed > totalTime
            THEN IF ponder
                 THEN /\ stopOnPonderhit' = TRUE
                      /\ hist' = [hist EXCEPT !.sop = "recorded"]
                      /\ UNCHANGED <<stop, increaseDepth>>
                 ELSE /\ stop' = TRUE
                      /\ hist' = [hist EXCEPT !.budgetStopPonder = @ \/ ponder]
                      /\ UNCHANGED <<stopOnPonderhit, increaseDepth>>
            ELSE /\ increaseDepth' = ~(~ponder /\ 2 * elapsed > totalTime)
                 /\ UNCHANGED <<stop, stopOnPonderhit, hist>>
       ELSE UNCHANGED <<stop, stopOnPonderhit, hist, increaseDepth>>
    /\ UNCHANGED <<tt, board, asp, rec, aNode, game, node, uciRunning, goCount, ponder, limits, multiPVOpt, useClassic, pool, searching,
                   mpc, rm, callsCnt, elapsed, nodes, out>>

\* the return of Thread::search: a helper goes idle, the main thread goes on
\* in MainThread::search
ThExit(t) ==
    /\ th[t].pc = "exit"
    /\ th' = [th EXCEPT ![t] = [@ EXCEPT !.pc = "done"]]
    /\ IF t = Main
       THEN mpc' = "wait" /\ UNCHANGED searching
       ELSE searching' = [searching EXCEPT ![t] = FALSE] /\ UNCHANGED mpc
    /\ UNCHANGED <<tt, board, asp, rec, aNode, game, node, uciRunning, goCount, stop, ponder, stopOnPonderhit, increaseDepth, limits,
                   multiPVOpt, useClassic, pool, rm, callsCnt, elapsed, nodes, out,
                   hist>>

Next ==
    \/ UciGo
    \/ UciStop
    \/ UciQuit
    \/ UciPonderhit
    \/ Tick
    \/ MainBegin
    \/ MainBusyWait
    \/ MainFinish
    \/ \E t \in Workers : ThStart(t)
    \/ \E t \in Workers : ThIterHead(t)
    \/ \E t \in Workers : ThPvHead(t)
    \/ \E t \in Workers : ThCallSearch(t)
    \/ \E t \in Workers : ThSearchNode(t)
    \/ \E t \in Workers : ThSearchReturn(t)
    \/ \E t \in Workers : ThPostSearch(t)
    \/ \E t \in Workers : ThPvEnd(t)
    \/ \E t \in Workers : ThIterEnd(t)
    \/ ThTimeMgmt
    \/ \E t \in Workers : ThExit(t)

Spec == Init /\ [][Next]_vars

(***************************************************************************)
(* SpecMate: the same machine with mate searches only, on two threads.     *)
(* No limit of these reads the clock.                                      *)
(***************************************************************************)
UciGoMate == GoFrom(MateInputs)

NextMate ==
    \/ UciGoMate
    \/ UciStop
    \/ UciQuit
    \/ UciPonderhit
    \/ MainBegin
    \/ MainBusyWait
    \/ MainFinish
    \/ \E t \in Workers : ThStart(t)
    \/ \E t \in Workers : ThIterHead(t)
    \/ \E t \in Workers : ThPvHead(t)
    \/ \E t \in Workers : ThCallSearch(t)
    \/ \E t \in Workers : ThSearchNode(t)
    \/ \E t \in Workers : ThSearchReturn(t)
    \/ \E t \in Workers : ThPostSearch(t)
    \/ \E t \in Workers : ThPvEnd(t)
    \/ \E t \in Workers : ThIterEnd(t)
    \/ ThTimeMgmt
    \/ \E t \in Workers : ThExit(t)

SpecMate == Init /\ [][NextMate]_vars

(***************************************************************************)
(* Properties of the thread pool.                                          *)
(***************************************************************************)
Bestmoves == {i \in 1..Len(out) : out[i].kind = "bestmove"}

C5_NoBudgetStopWhilePondering == ~hist.budgetStopPonder

C5_Witness ==
    /\ ponder
    /\ ~stop
    /\ hist.ponderSkip
    /\ hist.sop = "recorded"
    /\ stopOnPonderhit

\* C6 as stated: once stopOnPonderhit was recorded while pondering and
\* ponderhit has cleared ponder, the next check_time that reaches its budget
\* test leaves stop set.
C6_Original == hist.sop \notin {"missed", "ignored"}

\* C6: once stopOnPonderhit was recorded while pondering and ponderhit has
\* cleared ponder, the next check_time that reaches its budget test leaves
\* stop set, provided stopOnPonderhit is still set at that check.
C6_StopOnPonderhit == hist.sop # "ignored"

C6_Witness ==
    /\ hist.sop = "stopped"
    /\ stop
    /\ th[Main].pc = "search"

NoLegalMoveBranch == rm[Main] # <<>> /\ rm[Main][1].pv[1] = MoveNone

\* C8 as stated: a root position without legal moves starts no worker search
\* and is answered with "bestmove 0000".
C8_Original ==
    hist.rootEmpty =>
        /\ ~hist.helpersStarted
        /\ \A t \in Workers : th[t].pc = "idle"
        /\ NoLegalMoveBranch => \A i \in Bestmoves : out[i].text = "bestmove 0000"

\* C8: a root position without legal moves starts no worker search, and when
\* the book gave no move the answer is the line "bestmove (none)".
C8_NoLegalMoves ==
    hist.rootEmpty =>
        /\ ~hist.helpersStarted
        /\ \A t \in Workers : th[t].pc = "idle"
        /\ NoLegalMoveBranch => \A i \in Bestmoves : out[i].text = "bestmove (none)"

C8_Witness ==
    /\ hist.rootEmpty
    /\ NoLegalMoveBranch
    /\ Bestmoves # {}
    /\ \A i \in Bestmoves : out[i].text = "bestmove (none)"

\* C9: under a depth limit the main thread is never inside an iteration
\* deeper than the limit; once it has gone on past the busy wait stop is
\* set; and a helper at the head of its loop with stop set leaves the loop.
C9_DepthLimit ==
    /\ [](limits.depth # 0 =>
            /\ InBody(Main) => th[Main].rootDepth <= limits.depth
            /\ mpc = "join" => stop)
    /\ [][\A h \in Helpers :
            (limits.depth # 0 /\ stop /\ th[h].pc = "id") => th'[h].pc \in {"id", "exit"}]_vars

C9_Witness ==
    /\ limits.depth # 0
    /\ mpc = "join"
    /\ \E h \in Helpers : searching[h] /\ InBody(h) /\ th[h].rootDepth > limits.depth

\* the mate tests, written out
MateReached(bv) ==
    \/ limits.mate > 0 /\ bv >= VALUE_MATE - MAX_PLY /\ VALUE_MATE - bv <= 2 * limits.mate
    \/ limits.mate < 0 /\ bv <= MAX_PLY - VALUE_MATE /\ VALUE_MATE + bv <= -2 * limits.mate

IterationEnded(t) == th[t].pc \in {"tm", "id"} /\ th[t].rootDepth >= 1

\* C10 as stated: a thread that ends an iteration with |bestValue| a mate
\* score within 2*N of VALUE_MATE has set stop.
C10_Original ==
    \A t \in Workers :
        (/\ IterationEnded(t)
         /\ limits.mate # 0
         /\ Abs(th[t].bestValue) >= VALUE_MATE - MAX_PLY
         /\ VALUE_MATE - Abs(th[t].bestValue) <= 2 * limits.mate) => stop

\* C10: a thread that ends an iteration with a bestValue that is, for N > 0,
\* a mate score for the side to move within 2*N of VALUE_MATE, or for N < 0 a
\* mated score within -2*N of -VALUE_MATE, has set stop; and with stop set no
\* thread at the head of its loop starts a further iteration.
C10_MateLimit ==
    /\ [](\A t \in Workers : (IterationEnded(t) /\ MateReached(th[t].bestValue)) => stop)
    /\ [][\A u \in Workers : (stop /\ th[u].pc = "id") => th'[u].pc \in {"id", "exit"}]_vars

C10_Witness ==
    /\ limits.mate > 0
    /\ \E h \in Helpers : IterationEnded(h) /\ MateReached(th[h].bestValue)
    /\ stop
    /\ InBody(Main)

(***************************************************************************)
(* SpecSearch: the recursive search() of the main thread, call by call.    *)
(* The run is taken up where a go "depth 16 nodes 1005" has completed      *)
(* iteration 15 and starts iteration 16 with two root moves and two lines. *)
(* search<Root>, and the search<PV> and search<NonPV> calls of its move    *)
(* loop, are followed step by step (instantiation Shashin = false); calls  *)
(* nested deeper, and qsearch, are followed from entry to return.          *)
(***************************************************************************)
\* nested search() calls that are followed step by step
MaxNest == 2
\* moves the move loop of a node below the root gets to try
MaxMoves == 2
\* captures the ProbCut loop of a node gets to try
MaxCaptures == 1

VALUE_TB == VALUE_MATE_IN_MAX_PLY - 1
VALUE_TB_WIN_IN_MAX_PLY == VALUE_TB - MAX_PLY
VALUE_TB_LOSS_IN_MAX_PLY == -VALUE_TB_WIN_IN_MAX_PLY

mate_in(ply) == VALUE_MATE - ply
mated_in(ply) == -VALUE_MATE + ply

value_draw_Plain(n) == VALUE_DRAW

\* value_draw: VALUE_DRAW - 1 + Value(thisThread->nodes & 0x2)
value_draw(n) == VALUE_DRAW - 1 + 2 * ((n \div 2) % 2)

\* values of the positions below the root, from the root's side to move:
\* what qsearch, the transposition table and the calls that are not followed
\* step by step hand back at even plies, negated at odd plies
NodeValues == {0, 220, 300}
ValuesAt(ply) == IF ply % 2 = 0 THEN NodeValues ELSE {-v : v \in NodeValues}

\* the reduction r of a move, from the history statistics
Reductions == {0, 4}

\* nodes a call that is not followed step by step adds to the node count
SubtreeNodes == {1}

\* Threads.nodes_searched() after k more moves, followed under a node limit
CountNodes(k) == IF limits.nodes # 0 THEN nodes + k ELSE nodes

\* the locals of one search() call; site is the call site in the caller;
\* st is pos.st as the call last left it, counted in StateInfo records linked
\* behind the root position's, and st0 is pos.st when the call was entered
Frame(type, ply, alpha, beta, depth, cutNode, excludedMove, site) ==
    [type |-> type, ply |-> ply, alpha |-> alpha, beta |-> beta, depth |-> depth,
     cutNode |-> cutNode, excludedMove |-> excludedMove, site |-> site, pc |-> "entry",
     moveCount |-> 0, bestValue |-> -VALUE_INFINITE, bestAborted |-> FALSE,
     bestMove |-> FALSE,
     value |-> 0, valueAborted |-> FALSE, probCutBeta |-> 0, probCutTried |-> 0,
     singularBeta |-> 0, ttValue |-> 0, newDepth |-> 0, d |-> 0, R |-> 0,
     st0 |-> 0, st |-> 0]

\* the frame back at the head of the move loop, the locals of the last move dead
AtMoves(f) ==
    [f EXCEPT !.pc = "moves", !.value = 0, !.valueAborted = FALSE, !.probCutBeta = 0,
              !.probCutTried = 0, !.singularBeta = 0, !.ttValue = 0, !.newDepth = 0, !.d = 0,
              !.R = 0]

\* the frame on top; after a call has returned, with pos.st as the call left it
Top ==
    LET f == node.stack[Len(node.stack)]
    IN  IF node.ret.set THEN [f EXCEPT !.st = node.ret.st] ELSE f
Running == th[Main].pc = "search" /\ node.stack # <<>>
At(pc) == Running /\ Top.pc = pc
Returned(pc) == At(pc) /\ node.ret.set

undo_move_Skipped(f) == f

\* Position::do_move, do_null_move: st = &newSt, linked behind the old st
do_move(f) == [f EXCEPT !.st = @ + 1]

\* Position::undo_move, undo_null_move: st = st->previous
undo_move(f) == [f EXCEPT !.st = @ - 1]

\* the caller's frame replaced by f and the called frame c on top of it
Call(f, c) ==
    [stack |-> Append([node.stack EXCEPT ![Len(node.stack)] = f],
                      [c EXCEPT !.st0 = f.st, !.st = f.st]),
     ret |-> NoRet,
     writes |-> {}]

\* the frame on top replaced by f
Goto(f) ==
    [stack |-> [node.stack EXCEPT ![Len(node.stack)] = f], ret |-> NoRet, writes |-> {}]

\* the call on top returns v; ab: the call was aborted, or v comes from a
\* call that was
Return(f, v, ab, ws) ==
    [stack |-> SubSeq(node.stack, 1, Len(node.stack) - 1),
     ret |-> [value |-> v, aborted |-> ab, set |-> TRUE, bestValue |-> f.bestValue,
              bestMove |-> f.bestMove, st |-> f.st],
     writes |-> ws]

\* the first lines of the aspiration loop and the call of search<Root>
SearchCall ==
    /\ th[Main].pc = "asp"
    /\ LET ad == Max(1, th[Main].rootDepth - th[Main].failedHighCnt
                        - (3 * (th[Main].searchAgainCounter + 1)) \div 4)
       IN /\ th' = [th EXCEPT ![Main] = [@ EXCEPT !.pc = "search", !.adjustedDepth = ad]]
          /\ node' = [stack |-> <<Frame("Root", 0, th[Main].alpha, th[Main].beta, ad, FALSE,
                                        FALSE, "root")>>,
                      ret |-> NoRet, writes |-> {}]
    /\ UNCHANGED <<tt, board, asp, rec, aNode, game, uciRunning, goCount, stop, ponder, stopOnPonderhit, increaseDepth, limits,
                   multiPVOpt, useClassic, pool, searching, mpc, rm, callsCnt, elapsed, nodes,
                   out, hist>>

\* Step 11 applies: a non-PV node deep enough, beta no tablebase score
ProbCutApplies(f) ==
    f.type = "NonPV" /\ f.depth > 3 /\ Abs(f.beta) < VALUE_TB_WIN_IN_MAX_PLY

\* after the null move step: into ProbCut where it applies and the
\* transposition table does not advise against it, else on to the move loop
ToProbCutOrMoves(f) ==
    {AtMoves(f)}
    \cup (IF ProbCutApplies(f)
          THEN {[f EXCEPT !.pc = "probcut", !.probCutBeta = f.beta + 163 - 67 * improving] :
                   improving \in {0, 1}}
          ELSE {})

\* Step 9 applies as far as the node's type, excluded move and beta decide
NullMoveApplies(f) ==
    f.type = "NonPV" /\ ~f.excludedMove /\ f.beta > VALUE_TB_LOSS_IN_MAX_PLY

AbortOrDraw_NoStop(s, draw, ply) == draw \/ ply >= MAX_PLY

\* the condition of Step 2: stop is set, the position is drawn, or the ply
\* limit is reached
AbortOrDraw(s, draw, ply) == s \/ draw \/ ply >= MAX_PLY

\* search() from its first line up to the null move, the ProbCut loop or the
\* move loop: the dive into qsearch, the game-cycle test, check_time, Step 2
\* (abort on stop, immediate draw), Step 3, the early returns of Steps 4-8
NodeEntry ==
    /\ At("entry")
    /\ LET f == Top
           root == f.type = "Root"
       IN IF f.depth <= 0
          THEN /\ \E v \in ValuesAt(f.ply), k \in SubtreeNodes :
                     /\ node' = Return(f, v, FALSE, {})
                     /\ nodes' = CountNodes(k)
               /\ UNCHANGED <<callsCnt, stop, hist>>
          ELSE \E cycle \in (IF root THEN {FALSE} ELSE BOOLEAN) :
               LET a1 == IF cycle /\ f.alpha < VALUE_DRAW THEN value_draw(nodes) ELSE f.alpha IN
               IF a1 # f.alpha /\ a1 >= f.beta
               THEN /\ node' = Return(f, a1, FALSE, {})
                    /\ UNCHANGED <<callsCnt, stop, hist, nodes>>
               ELSE LET r == CheckTime(callsCnt)
                        a2 == Max(mated_in(f.ply), a1)
                        b2 == Min(mate_in(f.ply + 1), f.beta)
                        g == [f EXCEPT !.alpha = IF root THEN @ ELSE a2,
                                       !.beta = IF root THEN @ ELSE b2]
                    IN /\ callsCnt' = r.callsCnt
                       /\ stop' = r.stop
                       /\ hist' = HistAfterCheck(r)
                       /\ UNCHANGED nodes
                       /\ \E draw \in (IF root THEN {FALSE} ELSE BOOLEAN) :
                          IF ~root /\ AbortOrDraw(r.stop, draw, f.ply)
                          THEN node' = Return(f, value_draw(nodes), r.stop, {})
                          ELSE IF ~root /\ a2 >= b2
                          THEN node' = Return(f, a2, FALSE, {})
                          ELSE IF Len(node.stack) > MaxNest
                          THEN node' = Goto([g EXCEPT !.pc = "body"])
                          ELSE \/ /\ ~root
                                  /\ \E v \in ValuesAt(f.ply) : node' = Return(g, v, FALSE, {})
                               \/ /\ NullMoveApplies(g)
                                  /\ \E e \in {0, 6} :
                                     LET R == e + g.depth \div 3 + 4 IN
                                     node' = Call(do_move([g EXCEPT !.pc = "null", !.R = R]),
                                                  Frame("NonPV", g.ply + 1, -g.beta, -g.beta + 1,
                                                        g.depth - R, ~g.cutNode, FALSE, "null"))
                               \/ \E h \in ToProbCutOrMoves(g) : node' = Goto(h)
    /\ UNCHANGED <<tt, board, asp, rec, aNode, game, uciRunning, goCount, ponder, stopOnPonderhit, increaseDepth, limits,
                   multiPVOpt, useClassic, pool, searching, mpc, th, rm, elapsed, out>>

\* a call that is not followed step by step comes back: with the value of
\* its subtree, or, stop being set, from one of its exits on stop
NodeBody ==
    /\ At("body")
    /\ \E k \in SubtreeNodes :
          /\ nodes' = CountNodes(k)
          /\ \/ \E v \in ValuesAt(Top.ply) : node' = Return(Top, v, FALSE, {})
             \/ stop /\ node' = Return(Top, VALUE_ZERO, TRUE, {})
    /\ UNCHANGED <<tt, board, asp, rec, aNode, game, uciRunning, goCount, stop, ponder, stopOnPonderhit, increaseDepth, limits,
                   multiPVOpt, useClassic, pool, searching, mpc, th, rm, callsCnt, elapsed,
                   out, hist>>

\* the null move search has come back: the cutoff, the verification search
\* at high depths, or on to ProbCut and the move loop
NodeAfterNull ==
    /\ Returned("null")
    /\ LET f == undo_move(Top)
           nullValue == -node.ret.value
       IN IF nullValue >= f.beta /\ nullValue < VALUE_TB_WIN_IN_MAX_PLY
          THEN IF f.depth < 15
               THEN node' = Return(f, nullValue, node.ret.aborted, {})
               ELSE node' = Call([f EXCEPT !.pc = "verify", !.value = nullValue,
                                           !.valueAborted = node.ret.aborted],
                                 Frame("NonPV", f.ply, f.beta - 1, f.beta, f.depth - f.R, FALSE,
                                       FALSE, "verify"))
          ELSE \E h \in ToProbCutOrMoves(f) : node' = Goto(h)
    /\ UNCHANGED <<tt, board, asp, rec, aNode, game, uciRunning, goCount, stop, ponder, stopOnPonderhit, increaseDepth, limits,
                   multiPVOpt, useClassic, pool, searching, mpc, th, rm, callsCnt, elapsed, nodes,
                   out, hist>>

\* the verification search has come back
NodeAfterVerify ==
    /\ Returned("verify")
    /\ LET f == Top
           v == node.ret.value
       IN IF v >= f.beta
          THEN node' = Return(f, f.value, f.valueAborted \/ node.ret.aborted, {})
          ELSE \E h \in ToProbCutOrMoves(f) : node' = Goto(h)
    /\ UNCHANGED <<tt, board, asp, rec, aNode, game, uciRunning, goCount, stop, ponder, stopOnPonderhit, increaseDepth, limits,
                   multiPVOpt, useClassic, pool, searching, mpc, th, rm, callsCnt, elapsed, nodes,
                   out, hist>>

WithWrites(n, ws) == [n EXCEPT !.writes = @ \cup ws]

\* Step 11, one turn of the ProbCut loop: the next legal capture is made and
\* verified by qsearch, and searched at depth - 4 when the qsearch held
NodeProbCut ==
    /\ At("probcut")
    /\ LET f == Top IN
       \E more \in (IF f.probCutTried < MaxCaptures THEN BOOLEAN ELSE {FALSE}) :
          IF ~more
          THEN /\ node' = Goto(AtMoves(f))
               /\ UNCHANGED nodes
          ELSE \E v \in ValuesAt(f.ply + 1), k \in SubtreeNodes :
               LET g == [f EXCEPT !.probCutTried = @ + 1, !.value = -v,
                                  !.valueAborted = FALSE]
               IN /\ nodes' = CountNodes(1 + k)
                  /\ IF -v >= f.probCutBeta
                     THEN node' = Call(do_move([g EXCEPT !.pc = "probcutSearch"]),
                                       Frame("NonPV", f.ply + 1, -f.probCutBeta,
                                             -f.probCutBeta + 1, f.depth - 4, ~f.cutNode, FALSE,
                                             "probcut"))
                     ELSE node' = Goto(undo_move(do_move(g)))
    /\ UNCHANGED <<tt, board, asp, rec, aNode, game, uciRunning, goCount, stop, ponder, stopOnPonderhit, increaseDepth, limits,
                   multiPVOpt, useClassic, pool, searching, mpc, th, rm, callsCnt, elapsed,
                   out, hist>>

\* the ProbCut search has come back: undo_move, then the save into the
\* transposition table and the return when the value holds
NodeAfterProbCut ==
    /\ Returned("probcutSearch")
    /\ LET f == undo_move(Top)
           value == -node.ret.value
       IN IF value >= f.probCutBeta
          THEN node' = Return(f,
                              IF Abs(value) < VALUE_TB_WIN_IN_MAX_PLY
                              THEN value - (f.probCutBeta - f.beta) ELSE value,
                              node.ret.aborted,
                              {[to |-> "tt", at |-> "probcut", aborted |-> node.ret.aborted]})
          ELSE node' = Goto([f EXCEPT !.value = value, !.valueAborted = node.ret.aborted,
                                      !.pc = "probcut"])
    /\ UNCHANGED <<tt, board, asp, rec, aNode, game, uciRunning, goCount, stop, ponder, stopOnPonderhit, increaseDepth, limits,
                   multiPVOpt, useClassic, pool, searching, mpc, th, rm, callsCnt, elapsed, nodes,
                   out, hist>>

IsPv(f) == f.type # "NonPV"
IsRoot(f) == f.type = "Root"

\* Steps 16-18 for the move picked: do_move, then the reduced search of a
\* late move, or the full-depth search with a null window, or, at a PV node,
\* the PV search of the first move
MakeMove(f) ==
    LET lmr == {Call([do_move(f) EXCEPT !.pc = "lmr",
                               !.d = Max(1, Min(f.newDepth - r, f.newDepth + 1))],
                     Frame("NonPV", f.ply + 1, -(f.alpha + 1), -f.alpha,
                           Max(1, Min(f.newDepth - r, f.newDepth + 1)), TRUE, FALSE, "lmr")) :
                   r \in Reductions}
        full == {Call([do_move(f) EXCEPT !.pc = "full"],
                      Frame("NonPV", f.ply + 1, -(f.alpha + 1), -f.alpha,
                            f.newDepth - (IF r > 3 THEN 1 ELSE 0), ~f.cutNode, FALSE, "full")) :
                    r \in Reductions}
        pv == {Call([do_move(f) EXCEPT !.pc = "pvs"],
                    Frame("PV", f.ply + 1, -f.beta, -f.alpha, f.newDepth, FALSE, FALSE, "pv"))}
    IN (IF f.depth >= 2 /\ f.moveCount > 1 + (IF IsRoot(f) THEN 1 ELSE 0) THEN lmr ELSE {})
       \cup (IF ~IsPv(f) \/ f.moveCount > 1 THEN full ELSE pv)

\* Step 17-18 are over with f.value: the PV search of a PV node's first move
\* or of a move that beat alpha, else Step 19
PvOrUndo(f, ws) ==
    IF IsPv(f) /\ (f.moveCount = 1 \/ f.value > f.alpha)
    THEN WithWrites(Call([f EXCEPT !.pc = "pvs"],
                         Frame("PV", f.ply + 1, -f.beta, -f.alpha, f.newDepth, FALSE, FALSE,
                               "pv")), ws)
    ELSE WithWrites(Goto([f EXCEPT !.pc = "undo"]), ws)

\* Steps 21 and after: the value of a node without moves, the statistics of
\* the searched moves, the save into the transposition table, the
\* correction history (written here whenever no best move was found), and
\* the return of bestValue
Finish(f) ==
    LET bvs == IF f.moveCount # 0 THEN {f.bestValue}
               ELSE IF f.excludedMove THEN {f.alpha}
               ELSE {mated_in(f.ply), VALUE_DRAW}
        ws == (IF f.moveCount # 0 /\ f.bestMove
               THEN {[to |-> "history", at |-> "stats", aborted |-> f.bestAborted]} ELSE {})
              \cup (IF ~f.excludedMove /\ ~(IsRoot(f) /\ th[Main].pvIdx # 0)
                    THEN {[to |-> "tt", at |-> "final", aborted |-> f.bestAborted]} ELSE {})
              \cup (IF ~f.bestMove
                    THEN {[to |-> "history", at |-> "correction", aborted |-> f.bestAborted]}
                    ELSE {})
    IN {Return([f EXCEPT !.bestValue = bv], bv, f.bestAborted, ws) : bv \in bvs}

\* the head of the move loop (Step 13), the pruning of Step 14, and for the
\* transposition-table move of a node below the root the singular search of
\* Step 15; then the move is made, or the loop is over
NodeNextMove ==
    /\ At("moves")
    /\ LET f == Top
           legal == IF IsRoot(f) THEN {f.moveCount < th[Main].pvLast - th[Main].pvIdx}
                    ELSE IF f.moveCount < MaxMoves THEN BOOLEAN ELSE {FALSE}
       IN \E more \in legal :
          IF ~more
          THEN /\ node' \in Finish(f)
               /\ UNCHANGED nodes
          ELSE LET g == [f EXCEPT !.moveCount = @ + 1, !.newDepth = f.depth - 1] IN
               \/ /\ ~IsRoot(f)
                  /\ f.bestValue > VALUE_TB_LOSS_IN_MAX_PLY
                  /\ node' = Goto(AtMoves(g))
                  /\ UNCHANGED nodes
               \/ /\ ~IsRoot(f)
                  /\ g.moveCount = 1
                  /\ ~f.excludedMove
                  /\ \E isPv \in {0, 1}, ttPv \in {0, 1}, ttValue \in ValuesAt(f.ply) :
                     LET sb == ttValue - CDiv((66 + 58 * (IF IsPv(f) THEN 0 ELSE ttPv)) * f.depth,
                                              64)
                     IN /\ f.depth >= 4 + 2 * (IF IsPv(f) THEN isPv ELSE 0)
                        /\ Abs(ttValue) < VALUE_TB_WIN_IN_MAX_PLY
                        /\ node' = Call([g EXCEPT !.pc = "singular", !.ttValue = ttValue,
                                                  !.singularBeta = sb],
                                        Frame("NonPV", f.ply, sb - 1, sb, g.newDepth \div 2,
                                              f.cutNode, TRUE, "singular"))
                  /\ UNCHANGED nodes
               \/ /\ node' \in MakeMove(g)
                  /\ nodes' = CountNodes(1)
    /\ UNCHANGED <<tt, board, asp, rec, aNode, game, uciRunning, goCount, stop, ponder, stopOnPonderhit, increaseDepth, limits,
                   multiPVOpt, useClassic, pool, searching, mpc, th, rm, callsCnt, elapsed,
                   out, hist>>

\* the singular search has come back: the extension, the multi-cut return,
\* or a negative extension; then the move is made
NodeAfterSingular ==
    /\ Returned("singular")
    /\ LET f == Top
           value == node.ret.value
           sb == f.singularBeta
           double == ~IsPv(f) /\ value < sb - 17
           extension == IF value < sb THEN (IF double THEN 2 ELSE 1)
                        ELSE IF f.ttValue >= f.beta THEN -2 - (IF IsPv(f) THEN 0 ELSE 1)
                        ELSE IF f.cutNode THEN (IF f.depth < 19 THEN -2 ELSE -1)
                        ELSE IF f.ttValue <= value THEN -1
                        ELSE 0
       IN IF value >= sb /\ sb >= f.beta
          THEN /\ node' = Return(f, sb, node.ret.aborted, {})
               /\ UNCHANGED nodes
          ELSE /\ node' \in MakeMove([f EXCEPT !.value = value,
                                               !.valueAborted = node.ret.aborted,
                                               !.newDepth = @ + extension,
                                               !.depth = IF value < sb /\ double /\ @ < 15
                                                         THEN @ + 1 ELSE @])
               /\ nodes' = CountNodes(1)
    /\ UNCHANGED <<tt, board, asp, rec, aNode, game, uciRunning, goCount, stop, ponder, stopOnPonderhit, increaseDepth, limits,
                   multiPVOpt, useClassic, pool, searching, mpc, th, rm, callsCnt, elapsed,
                   out, hist>>

\* the write of update_continuation_histories after the LMR searches
LmrHistory == {[to |-> "history", at |-> "lmr", aborted |-> node.ret.aborted]}

\* the reduced search has come back: the full-depth re-search when it failed
\* high, with the post-LMR update of the continuation histories
NodeAfterLmr ==
    /\ Returned("lmr")
    /\ LET f == Top
           value == -node.ret.value
           g == [f EXCEPT !.value = value, !.valueAborted = node.ret.aborted]
       IN IF value > f.alpha /\ f.d < f.newDepth
          THEN LET deeper == IF value > f.bestValue + 53 + 2 * f.newDepth THEN 1 ELSE 0
                   shallower == IF value < f.bestValue + f.newDepth THEN 1 ELSE 0
                   nd == f.newDepth + deeper - shallower
               IN IF nd > f.d
                  THEN node' = Call([g EXCEPT !.pc = "lmr2", !.newDepth = nd],
                                    Frame("NonPV", f.ply + 1, -(f.alpha + 1), -f.alpha, nd,
                                          ~f.cutNode, FALSE, "lmr2"))
                  ELSE node' = PvOrUndo([g EXCEPT !.newDepth = nd], LmrHistory)
          ELSE node' = PvOrUndo(g, {})
    /\ UNCHANGED <<tt, board, asp, rec, aNode, game, uciRunning, goCount, stop, ponder, stopOnPonderhit, increaseDepth, limits,
                   multiPVOpt, useClassic, pool, searching, mpc, th, rm, callsCnt, elapsed, nodes,
                   out, hist>>

\* the full-depth re-search after LMR has come back
NodeAfterLmr2 ==
    /\ Returned("lmr2")
    /\ node' = PvOrUndo([Top EXCEPT !.value = -node.ret.value,
                                    !.valueAborted = node.ret.aborted], LmrHistory)
    /\ UNCHANGED <<tt, board, asp, rec, aNode, game, uciRunning, goCount, stop, ponder, stopOnPonderhit, increaseDepth, limits,
                   multiPVOpt, useClassic, pool, searching, mpc, th, rm, callsCnt, elapsed, nodes,
                   out, hist>>

\* the full-depth search of Step 18 has come back
NodeAfterFull ==
    /\ Returned("full")
    /\ node' = PvOrUndo([Top EXCEPT !.value = -node.ret.value,
                                    !.valueAborted = node.ret.aborted], {})
    /\ UNCHANGED <<tt, board, asp, rec, aNode, game, uciRunning, goCount, stop, ponder, stopOnPonderhit, increaseDepth, limits,
                   multiPVOpt, useClassic, pool, searching, mpc, th, rm, callsCnt, elapsed, nodes,
                   out, hist>>

\* the PV search has come back
NodeAfterPv ==
    /\ Returned("pvs")
    /\ node' = Goto([Top EXCEPT !.value = -node.ret.value,
                                !.valueAborted = node.ret.aborted, !.pc = "undo"])
    /\ UNCHANGED <<tt, board, asp, rec, aNode, game, uciRunning, goCount, stop, ponder, stopOnPonderhit, increaseDepth, limits,
                   multiPVOpt, useClassic, pool, searching, mpc, th, rm, callsCnt, elapsed, nodes,
                   out, hist>>

StopAfterUndo_Never == FALSE

\* the read of Threads.stop of Step 20
StopAfterUndo == stop

\* Steps 19-20: undo_move; on stop the return of VALUE_ZERO; else the root
\* move's scores at the root, bestValue, bestMove and alpha, and the break
\* on a fail high
NodeUndo ==
    /\ At("undo")
    /\ LET f == undo_move(Top)
           value == f.value
           j == th[Main].pvIdx + f.moveCount
           better == value > f.bestValue
           g == [AtMoves(f) EXCEPT
                          !.bestValue = IF better THEN value ELSE @,
                          !.bestAborted = IF better THEN f.valueAborted ELSE @,
                          !.bestMove = IF better /\ value > f.alpha THEN TRUE ELSE @,
                          !.alpha = IF better /\ value > f.alpha /\ value < f.beta
                                    THEN value ELSE @,
                          !.depth = IF better /\ value > f.alpha /\ value < f.beta
                                       /\ f.depth > 2 /\ f.depth < 12 /\ f.beta < 13782
                                       /\ value > -11541
                                    THEN @ - 2 ELSE @]
       IN IF StopAfterUndo
          THEN /\ node' = Return(f, VALUE_ZERO, TRUE, {})
               /\ UNCHANGED rm
          ELSE /\ IF IsRoot(f)
                  THEN rm' = [rm EXCEPT ![Main][j] =
                                 [@ EXCEPT !.averageScore =
                                               IF @ # -VALUE_INFINITE
                                               THEN CDiv(2 * value + @, 3) ELSE value,
                                           !.score = IF f.moveCount = 1 \/ value > f.alpha
                                                     THEN value ELSE -VALUE_INFINITE]]
                  ELSE UNCHANGED rm
               /\ LET ws == IF IsRoot(f)
                            THEN {[to |-> "rootScore", at |-> "root",
                                   aborted |-> f.valueAborted]}
                            ELSE {}
                  IN IF better /\ value > f.alpha /\ value >= f.beta
                     THEN \E n \in Finish(g) : node' = WithWrites(n, ws)
                     ELSE node' = WithWrites(Goto(g), ws)
    /\ UNCHANGED <<tt, board, asp, rec, aNode, game, uciRunning, goCount, stop, ponder, stopOnPonderhit, increaseDepth, limits,
                   multiPVOpt, useClassic, pool, searching, mpc, th, callsCnt, elapsed, nodes,
                   out, hist>>

\* search<Root> has returned to the aspiration loop: bestValue, and the
\* stable_sort of the root moves of the line's group
SearchReturn ==
    /\ th[Main].pc = "search"
    /\ node.stack = <<>>
    /\ node.ret.set
    /\ th' = [th EXCEPT ![Main] = [@ EXCEPT !.pc = "post", !.bestValue = node.ret.value]]
    /\ rm' = [rm EXCEPT ![Main] = StableSortRange(@, th[Main].pvIdx + 1, th[Main].pvLast)]
    /\ node' = NodeInit
    /\ UNCHANGED <<tt, board, asp, rec, aNode, game, uciRunning, goCount, stop, ponder, stopOnPonderhit, increaseDepth, limits,
                   multiPVOpt, useClassic, pool, searching, mpc, callsCnt, elapsed, nodes, out,
                   hist>>

\* go depth 16 nodes 1005, 1000 nodes into the search
SearchGo == [NoLimits EXCEPT !.depth = 16, !.nodes = 1005]

InitSearch ==
    /\ uciRunning = TRUE
    /\ goCount = 1
    /\ stop = FALSE
    /\ ponder = FALSE
    /\ stopOnPonderhit = FALSE
    /\ increaseDepth = TRUE
    /\ limits = SearchGo
    /\ multiPVOpt = 2
    /\ useClassic = FALSE
    /\ pool = {Main}
    /\ searching = [t \in Workers |-> t = Main]
    /\ mpc = "thsearch"
    /\ th = [t \in Workers |->
               IF t = Main
               THEN [ThreadInit EXCEPT !.pc = "pv", !.rootDepth = SearchGo.depth,
                                       !.completedDepth = SearchGo.depth - 1, !.multiPV = 2,
                                       !.bestValue = 220, !.delta = 12, !.alpha = 208,
                                       !.beta = 232, !.adjustedDepth = SearchGo.depth - 1]
               ELSE ThreadInit]
    /\ rm = [t \in Workers |->
               IF t = Main
               THEN << [pv |-> <<RootMoveList[1]>>, score |-> 220, previousScore |-> 220,
                        averageScore |-> 220],
                       [pv |-> <<RootMoveList[2]>>, score |-> 0, previousScore |-> 0,
                        averageScore |-> 0] >>
               ELSE <<>>]
    /\ callsCnt = 0
    /\ elapsed = 0
    /\ nodes = SearchGo.nodes - 5
    /\ out = <<>>
    /\ hist = [HistInit EXCEPT !.helpersStarted = TRUE]
    /\ node = NodeInit
    /\ game = GameInit
    /\ tt = <<>>
    /\ aNode = <<>>
    /\ rec = <<>>
    /\ board = <<>>
    /\ asp = <<>>

\* the steps of the main thread in Thread::search and below
SearchStep ==
    \/ ThIterHead(Main)
    \/ ThPvHead(Main)
    \/ SearchCall
    \/ NodeEntry
    \/ NodeBody
    \/ NodeAfterNull
    \/ NodeAfterVerify
    \/ NodeProbCut
    \/ NodeAfterProbCut
    \/ NodeNextMove
    \/ NodeAfterSingular
    \/ NodeAfterLmr
    \/ NodeAfterLmr2
    \/ NodeAfterFull
    \/ NodeAfterPv
    \/ NodeUndo
    \/ SearchReturn
    \/ ThPostSearch(Main)
    \/ ThPvEnd(Main)
    \/ ThIterEnd(Main)
    \/ ThTimeMgmt
    \/ ThExit(Main)

NextSearch ==
    \/ UciStop
    \/ SearchStep

\* the main thread keeps running: a step of it that is possible is taken
SpecSearch == InitSearch /\ [][NextSearch]_vars /\ WF_vars(SearchStep)

(***************************************************************************)
(* Properties of the recursive search.                                     *)
(***************************************************************************)
\* C1: when search() reads stop as set right after the undo_move of a child
\* in its move loop, it returns VALUE_ZERO at once: bestValue and bestMove
\* are as they were, no root move's score or PV is touched, and nothing is
\* saved into the transposition table or a history table.
C1_StopAfterUndo ==
    [][(At("undo") /\ stop /\ node' # node) =>
          /\ Len(node'.stack) = Len(node.stack) - 1
          /\ node'.ret.set
          /\ node'.ret.value = VALUE_ZERO
          /\ node'.ret.bestValue = Top.bestValue
          /\ node'.ret.bestMove = Top.bestMove
          /\ rm' = rm
          /\ node'.writes = {}]_vars

\* a node below the root that had a best value already has returned
\* VALUE_ZERO to the root on stop
C1_Witness ==
    /\ stop
    /\ Running
    /\ Len(node.stack) = 1
    /\ node.ret.set
    /\ node.ret.aborted
    /\ node.ret.value = VALUE_ZERO
    /\ node.ret.bestValue # -VALUE_INFINITE

\* C2: the value an aborted search() call returned is written nowhere by the
\* caller: not into the transposition table, not into a history table, not
\* into a root move's score.
C2_AbortedValueUnused == \A w \in node.writes : ~w.aborted

MaxGamePly == 3

e2e4 == <<"e2", "e4">>
c2c4 == <<"c2", "c4">>
e7e5 == <<"e7", "e5">>
e1d1 == <<"e1", "d1">>
e1e2 == <<"e1", "e2">>
d8d7 == <<"d8", "d7">>
g1f3 == <<"g1", "f3">>
e2e3 == <<"e2", "e3">>

\* position fen 3rk3/8/8/8/8/8/8/4K3 w - - 0 1: game ply 0, not the initial position
FenPos == [base |-> "fen", line |-> <<>>]

\* MoveList<LEGAL>(pos), for the positions of the model's game tree
LegalMoves(p) ==
    IF Len(p.line) >= Min(MaxGamePly, 3) THEN {}
    ELSE IF p.base = "startpos"
    THEN (IF Len(p.line) = 0 THEN {e2e4, c2c4} ELSE IF Len(p.line) = 1 THEN {e7e5} ELSE {g1f3})
    ELSE (IF Len(p.line) = 0 THEN {e1e2} ELSE IF Len(p.line) = 1 THEN {d8d7} ELSE {e2e3})

\* what the move generators and the MovePicker hand out: the legal moves,
\* and pseudo-legal moves that leave the king in check
PseudoLegalMoves(p) == LegalMoves(p) \cup (IF p = FenPos THEN {e1d1} ELSE {})

\* Position::do_move
Apply(p, m) == [p EXCEPT !.line = Append(@, m)]

game_ply(p) == Len(p.line)

\* a call of Position::do_move at a call site
DoMove(site, p, m) == [site |-> site, move |-> m, legal |-> m \in LegalMoves(p)]

\* what a command line or a book line holds for a move
Tokens == {"e2e4", "c2c4", "e7e5", "g1f3", "e1e2", "d8d7", "e1d1", "zz"}

\* SAN::algebraic_to_move (UCI::to_move): the legal move of the position
\* that the string denotes, Move::none() when there is none
algebraic_to_move(p, str) ==
    IF \E m \in LegalMoves(p) : UciMove(m) = str
    THEN CHOOSE m \in LegalMoves(p) : UciMove(m) = str
    ELSE MoveNone

\* the loop "while (is >> token && (m = UCI::to_move(pos, token))) do_move"
RECURSIVE PlayTokens(_, _, _)
PlayTokens(p, toks, site) ==
    IF toks = <<>> THEN [pos |-> p, made |-> {}]
    ELSE LET m == algebraic_to_move(p, Head(toks)) IN
         IF m = MoveNone THEN [pos |-> p, made |-> {}]
         ELSE LET r == PlayTokens(Apply(p, m), Tail(toks), site)
              IN [pos |-> r.pos, made |-> r.made \cup {DoMove(site, p, m)}]

\* the lines of eco.txt, each the moves of an opening
EcoLines == << <<"e2e4", "e7e5", "g1f3">>, <<"c2c4", "e7e5">> >>

\* Book::init, one line: the list of (move, key of the position after it)
RECURSIVE BookList(_, _)
BookList(p, toks) ==
    IF toks = <<>> THEN <<>>
    ELSE LET m == algebraic_to_move(p, Head(toks)) IN
         IF m = MoveNone THEN <<>>
         ELSE <<[move |-> m, hashKey |-> Apply(p, m)]>> \o BookList(Apply(p, m), Tail(toks))

\* Book::init with "Use Book" set: the entry of the initial position, then
\* the lines of eco.txt played from the initial position
BookInit ==
    /\ game.book = <<>>
    /\ game' = [game EXCEPT
                  !.book = << <<[move |-> MoveNone, hashKey |-> StartPos]>> >>
                           \o [i \in 1..Len(EcoLines) |-> BookList(StartPos, EcoLines[i])],
                  !.made = UNION {PlayTokens(StartPos, EcoLines[i], "book").made :
                                    i \in 1..Len(EcoLines)}]
    /\ UNCHANGED <<searchVars, tt, board, asp, rec, aNode>>

\* Book::find_move, the moves it can return. In the initial position the
\* first move of any line. Else the move after list[game_ply - 1] of every
\* line longer than game_ply whose key there is the position's; at game ply
\* 0 that element is list[-1], read outside the list, and the comparison
\* with whatever is found there can come out either way.
FindMoves(bk, p) ==
    IF bk = <<>> THEN {MoveNone}
    ELSE IF p = StartPos THEN {bk[i][1].move : i \in 1..Len(bk)}
    ELSE LET long == {i \in 1..Len(bk) : Len(bk[i]) > game_ply(p)}
             sure == {bk[i][game_ply(p) + 1].move :
                         i \in {k \in long : game_ply(p) >= 1 /\ bk[k][game_ply(p)].hashKey = p}}
             maybe == {bk[i][1].move : i \in {k \in long : game_ply(p) = 0}}
         IN sure \cup maybe \cup (IF sure = {} THEN {MoveNone} ELSE {})

\* command lines of the position command: the position and the move list
PositionInputs ==
    {[base |-> b, toks |-> t] :
        b \in {"startpos", "fen"},
        t \in {<<>>, <<"e2e4">>, <<"c2c4", "e7e5">>, <<"e2e4", "e7e5", "g1f3">>, <<"e1e2">>,
               <<"e1d1", "e1e2">>, <<"zz", "e2e4">>}}

\* position: the board is set up and the moves of the list are made up to
\* the first string that denotes no legal move
CmdPosition ==
    /\ \E c \in PositionInputs :
          LET r == PlayTokens([base |-> c.base, line |-> <<>>], c.toks, "position")
          IN game' = [game EXCEPT !.pos = r.pos, !.made = r.made]
    /\ UNCHANGED <<searchVars, tt, board, asp, rec, aNode>>

\* a move typed as a command of its own
CmdMove ==
    /\ \E tok \in Tokens :
          LET m == algebraic_to_move(game.pos, tok)
          IN IF m # MoveNone
             THEN game' = [game EXCEPT !.pos = Apply(@, m),
                                       !.made = {DoMove("move", game.pos, m)}]
             ELSE game' = [game EXCEPT !.made = {}]
    /\ UNCHANGED <<searchVars, tt, board, asp, rec, aNode>>

\* moves [pseudo]: every generated move that passes legal() is made and
\* taken back on a copy of the board
CmdMoves ==
    /\ \E pseudo \in BOOLEAN :
          LET list == IF pseudo THEN PseudoLegalMoves(game.pos) ELSE LegalMoves(game.pos)
          IN game' = [game EXCEPT
                        !.made = {DoMove("moves", game.pos, m) :
                                            m \in {x \in list : x \in LegalMoves(game.pos)}}]
    /\ UNCHANGED <<searchVars, tt, board, asp, rec, aNode>>

\* perft<Root>(pos, depth) with the moves made at each level
RECURSIVE Perft(_, _)
Perft(p, depth) ==
    IF depth <= 1 THEN {}
    ELSE UNION {{DoMove("perft", p, m)} \cup (IF depth = 2 THEN {} ELSE Perft(Apply(p, m), depth - 1)) :
                   m \in LegalMoves(p)}

\* go perft depth
CmdGoPerft ==
    /\ \E depth \in 1..3 : game' = [game EXCEPT !.made = Perft(game.pos, depth)]
    /\ UNCHANGED <<searchVars, tt, board, asp, rec, aNode>>

\* the moves search() and qsearch() make at a position: those the MovePicker
\* hands out that pass pos.legal (move loop, ProbCut loop, mate probe)
SearchMoves(p) ==
    {DoMove(site, p, m) : site \in {"search", "probcut", "mateprobe", "qsearch"},
                          m \in {x \in PseudoLegalMoves(p) : x \in LegalMoves(p)}}

\* go: MainThread::search. The root moves are the legal moves; a book move
\* replaces them; without a book move they are searched. After the bestmove
\* a root move whose PV holds no second move goes to extract_ponder_from_tt,
\* which makes it on the board unless it is Move::none().
CmdGo ==
    /\ \E bookMove \in FindMoves(game.book, game.pos) :
          IF bookMove # MoveNone
          THEN game' = [game EXCEPT !.made = {DoMove("ponder", game.pos, bookMove)}]
          ELSE IF LegalMoves(game.pos) = {}
          THEN game' = [game EXCEPT !.made = {}]
          ELSE \E best \in LegalMoves(game.pos), pvSize \in 1..2 :
               game' = [game EXCEPT
                          !.made = SearchMoves(game.pos)
                                   \cup UNION {SearchMoves(Apply(game.pos, m)) :
                                                    m \in LegalMoves(game.pos)}
                                   \cup (IF pvSize = 1
                                         THEN {DoMove("ponder", game.pos, best)} ELSE {})]
    /\ UNCHANGED <<searchVars, tt, board, asp, rec, aNode>>

NextMoves ==
    \/ BookInit
    \/ CmdPosition
    \/ CmdMove
    \/ CmdMoves
    \/ CmdGoPerft
    \/ CmdGo

SpecMoves == Init /\ [][NextMoves]_vars

\* C7: every move passed to Position::do_move is legal in the position it is
\* made in, at every call site: search and qsearch, perft,
\* extract_ponder_from_tt, the commands that make moves, and the book.
C7_DoMoveLegal == \A d \in game.made : d.legal


(***************************************************************************)
(* SpecTT: one transposition-table entry, the save at the end of search()  *)
(* and the probe of Step 4 with its early cutoff. TTEntry::save and        *)
(* TT.probe (tt.cpp) are not among the sources: a save is taken to store   *)
(* its arguments and a probe to find what the last save stored.            *)
(***************************************************************************)
VALUE_NONE == 32002

\* Value value_to_tt(Value v, int ply)
value_to_tt(v, ply) ==
    IF v >= VALUE_TB_WIN_IN_MAX_PLY THEN v + ply
    ELSE IF v <= VALUE_TB_LOSS_IN_MAX_PLY THEN v - ply
    ELSE v

\* Value value_from_tt(Value v, int ply, int r50c), search.cpp
value_from_tt(v, ply, r50c) ==
    IF v = VALUE_NONE THEN VALUE_NONE
    ELSE IF v >= VALUE_TB_WIN_IN_MAX_PLY
    THEN IF v >= VALUE_MATE_IN_MAX_PLY /\ VALUE_MATE - v > 100 - r50c
         THEN VALUE_TB_WIN_IN_MAX_PLY - 1
         ELSE IF VALUE_TB - v > 100 - r50c
         THEN VALUE_TB_WIN_IN_MAX_PLY - 1
         ELSE v - ply
    ELSE IF v <= VALUE_TB_LOSS_IN_MAX_PLY
    THEN IF v <= VALUE_MATED_IN_MAX_PLY /\ VALUE_MATE + v > 100 - r50c
         THEN VALUE_TB_LOSS_IN_MAX_PLY + 1
         ELSE IF VALUE_TB + v > 100 - r50c
         THEN VALUE_TB_LOSS_IN_MAX_PLY + 1
         ELSE v + ply
    ELSE v

\* Search::Classic::value_from_tt<SearchMate>(Value v, int ply, int r50c)
Classic_value_from_tt(SearchMate, v, ply, r50c) ==
    IF v = VALUE_NONE THEN VALUE_NONE
    ELSE IF ~SearchMate
    THEN IF v >= VALUE_TB_WIN_IN_MAX_PLY
         THEN IF v >= VALUE_MATE_IN_MAX_PLY /\ VALUE_MATE - v > 99 - r50c
              THEN VALUE_MATE_IN_MAX_PLY - 1
              ELSE v - ply
         ELSE IF v <= VALUE_TB_LOSS_IN_MAX_PLY
         THEN IF v <= VALUE_MATED_IN_MAX_PLY /\ VALUE_MATE + v > 99 - r50c
              THEN VALUE_MATED_IN_MAX_PLY + 1
              ELSE v + ply
         ELSE v
    ELSE IF v >= VALUE_TB_WIN_IN_MAX_PLY THEN v - ply
    ELSE IF v <= VALUE_TB_LOSS_IN_MAX_PLY THEN v + ply
    ELSE v

\* the values a node is given: ordinary scores, and tablebase and mate scores
\* at the distances the downgrade tests of value_from_tt turn on
TtValues ==
    LET pos == {0, 50, VALUE_TB_WIN_IN_MAX_PLY - 1, VALUE_TB_WIN_IN_MAX_PLY,
                VALUE_TB - 100, VALUE_TB - 11, VALUE_TB - 1,
                VALUE_MATE - 101, VALUE_MATE - 100, VALUE_MATE - 11, VALUE_MATE - 10,
                VALUE_MATE}
    IN  pos \cup {-v : v \in pos}

TtPlies == {0, 1}
TtBetas == {-40, 60}
TtRule50 == {0, 89, 90, 100}

NoEntry == [hit |-> FALSE, value |-> VALUE_NONE, bound |-> "none", depth |-> 0, move |-> FALSE]

TTInit == [entry |-> NoEntry, save |-> <<>>, probe |-> <<>>]

InitTT ==
    /\ EngineInit
    /\ tt = TTInit
    /\ aNode = <<>>
    /\ rec = <<>>
    /\ board = <<>>
    /\ asp = <<>>

SaveBound_Swapped(bestValue, beta, PvNode, bestMove) ==
    IF bestValue >= beta THEN "upper"
    ELSE IF PvNode /\ bestMove THEN "exact"
    ELSE "lower"

\* the bound of the final save: bestValue >= beta ? BOUND_LOWER
\*                              : PvNode && bestMove ? BOUND_EXACT : BOUND_UPPER
SaveBound(bestValue, beta, PvNode, bestMove) ==
    IF bestValue >= beta THEN "lower"
    ELSE IF PvNode /\ bestMove THEN "exact"
    ELSE "upper"

\* the kinds of node that get to the end of search(): type, pvIdx, excluded move
NodeKinds ==
    {[type |-> "Root", pvIdx |-> 0, excludedMove |-> FALSE],
     [type |-> "Root", pvIdx |-> 1, excludedMove |-> FALSE],
     [type |-> "PV", pvIdx |-> 0, excludedMove |-> FALSE],
     [type |-> "PV", pvIdx |-> 0, excludedMove |-> TRUE],
     [type |-> "NonPV", pvIdx |-> 0, excludedMove |-> FALSE],
     [type |-> "NonPV", pvIdx |-> 0, excludedMove |-> TRUE]}

\* the end of search(): tte->save(posKey, value_to_tt(bestValue, ss->ply), ...)
\* unless the node has an excluded move or is the root of a later PV line
SearchSave ==
    /\ tt.save = <<>>
    /\ tt.probe = <<>>
    /\ \E k \in NodeKinds, ply \in TtPlies, bestValue \in TtValues, beta \in TtBetas,
          bestMove \in BOOLEAN, depth \in 1..3 :
          /\ (k.type = "Root") = (ply = 0)
          /\ LET called == ~k.excludedMove /\ ~(k.type = "Root" /\ k.pvIdx > 0)
                 e == [hit |-> TRUE, value |-> value_to_tt(bestValue, ply),
                       bound |-> SaveBound(bestValue, beta, k.type # "NonPV", bestMove),
                       depth |-> depth, move |-> bestMove]
             IN tt' = [tt EXCEPT
                    !.entry = IF called THEN e ELSE @,
                    !.save = [kind |-> k, ply |-> ply, bestValue |-> bestValue, beta |-> beta,
                              bestMove |-> bestMove, depth |-> depth, called |-> called]]
    /\ UNCHANGED <<searchVars, game, board, asp, rec, aNode>>

\* tte->bound() & b, for b one of BOUND_LOWER and BOUND_UPPER
BoundHas(bound, b) == bound = "exact" \/ bound = b

\* the Shashin part of the cutoff condition of Step 4
ShashinCutoff(Shashin, gameCycle, ourMove, range, ttValue, beta) ==
    \/ ~Shashin
    \/ /\ ~gameCycle
       /\ ~ourMove \/ beta < VALUE_MATE_IN_MAX_PLY
       /\ ttValue # VALUE_DRAW \/ VALUE_DRAW >= beta
    \/ range # "HIGH_TAL" /\ range # "CAPABLANCA"

\* the template parameter Shashin, and gameCycle, ourMove and the win
\* probability range of the thread
ShashinInputs ==
    {[Shashin |-> FALSE, gameCycle |-> FALSE, ourMove |-> FALSE, range |-> "MIDDLE"],
     [Shashin |-> TRUE, gameCycle |-> FALSE, ourMove |-> TRUE, range |-> "HIGH_TAL"],
     [Shashin |-> TRUE, gameCycle |-> TRUE, ourMove |-> FALSE, range |-> "CAPABLANCA"],
     [Shashin |-> TRUE, gameCycle |-> TRUE, ourMove |-> TRUE, range |-> "MIDDLE"]}

TtCutoff_DepthGeq(variant, PvNode, excludedMove, shashinOk, e, ttValue, depth, beta) ==
    /\ ~PvNode
    /\ ~excludedMove
    /\ shashinOk
    /\ e.depth >= depth
    /\ ttValue # VALUE_NONE
    /\ BoundHas(e.bound, IF ttValue >= beta THEN "lower" ELSE "upper")

\* "At non-PV nodes we check for an early TT cutoff": the condition, in
\* search() of search.cpp and in Search::Classic::search
TtCutoff(variant, PvNode, excludedMove, shashinOk, e, ttValue, depth, beta) ==
    /\ ~PvNode
    /\ ~excludedMove
    /\ variant = "search" => shashinOk
    /\ IF variant = "search" THEN e.depth > depth
       ELSE e.depth > depth - (IF e.bound = "exact" THEN 1 ELSE 0)
    /\ ttValue # VALUE_NONE
    /\ BoundHas(e.bound, IF ttValue >= beta THEN "lower" ELSE "upper")

\* what the cutoff returns
TtCutoffValue(variant, ttValue, beta) ==
    IF variant = "search" /\ ttValue >= beta /\ Abs(ttValue) < VALUE_TB_WIN_IN_MAX_PLY
    THEN CDiv(ttValue * 3 + beta, 4)
    ELSE ttValue

\* Step 4 of search(): the probe, ttValue, and the early cutoff. A node that
\* does not return here goes on to Step 5 and the move loop.
SearchProbe ==
    /\ tt.probe = <<>>
    /\ \E variant \in {"search", "classic", "classicMate"}, PvNode \in BOOLEAN,
          excludedMove \in BOOLEAN, depth \in 1..2, beta \in TtBetas, r50 \in TtRule50,
          ply \in TtPlies, sh \in ShashinInputs :
          /\ tt.save # <<>> => ply = tt.save.ply
          /\ variant # "search" => ~sh.Shashin
          /\ ~(PvNode /\ excludedMove)
          /\ LET e == tt.entry
                 ttValue == IF ~e.hit THEN VALUE_NONE
                            ELSE IF variant = "search" THEN value_from_tt(e.value, ply, r50)
                            ELSE Classic_value_from_tt(variant = "classicMate", e.value, ply, r50)
                 shashinOk == ShashinCutoff(sh.Shashin, sh.gameCycle, sh.ourMove, sh.range,
                                           ttValue, beta)
                 cut == TtCutoff(variant, PvNode, excludedMove, shashinOk, e, ttValue, depth, beta)
                 returned == cut /\ (variant = "search" => r50 < 90)
             IN tt' = [tt EXCEPT !.probe =
                    [variant |-> variant, PvNode |-> PvNode, excludedMove |-> excludedMove,
                     depth |-> depth, beta |-> beta, r50 |-> r50, ply |-> ply,
                     shashinOk |-> shashinOk, ttValue |-> ttValue, returned |-> returned,
                     ret |-> IF returned THEN TtCutoffValue(variant, ttValue, beta)
                             ELSE VALUE_NONE]]
    /\ UNCHANGED <<searchVars, game, board, asp, rec, aNode>>

NextTT == SearchSave \/ SearchProbe

SpecTT == InitTT /\ [][NextTT]_vars

\* the distance to the mate or to the tablebase win that a stored value holds
TtDistance(t) ==
    IF Abs(t) >= VALUE_MATE_IN_MAX_PLY THEN VALUE_MATE - Abs(t) ELSE VALUE_TB - Abs(t)

\* C11: a value saved at a ply and read back at the same ply is the value
\* saved, for every rule-50 count, unless it is a mate or tablebase score
\* whose distance exceeds 100 - r50 (which value_from_tt downgrades);
\* ordinary scores pass through value_to_tt and value_from_tt unchanged and
\* VALUE_NONE is read as VALUE_NONE.
C11_ValueRoundTrip ==
    /\ (tt.probe # <<>> /\ ~tt.entry.hit) => tt.probe.ttValue = VALUE_NONE
    /\ (tt.probe # <<>> /\ tt.save # <<>> /\ tt.save.called) =>
          LET v == tt.save.bestValue
              t == tt.entry.value
          IN  /\ Abs(v) < VALUE_TB_WIN_IN_MAX_PLY => t = v /\ tt.probe.ttValue = v
              /\ \/ tt.probe.ttValue = v
                 \/ /\ Abs(v) >= VALUE_TB_WIN_IN_MAX_PLY
                    /\ TtDistance(t) > 100 - tt.probe.r50


\* the node of the probe is a non-PV node without excluded move whose entry
\* holds a value on the side of beta that its bound speaks about
TtUsable ==
    /\ tt.probe # <<>>
    /\ tt.entry.hit
    /\ ~tt.probe.PvNode
    /\ ~tt.probe.excludedMove
    /\ BoundHas(tt.entry.bound, IF tt.probe.ttValue >= tt.probe.beta THEN "lower" ELSE "upper")

C20_FinalSave ==
    tt.save # <<>> =>
        LET s == tt.save
            skipped == s.kind.excludedMove \/ (s.kind.type = "Root" /\ s.kind.pvIdx > 0)
        IN  /\ s.called = ~skipped
            /\ skipped => tt.entry = NoEntry
            /\ ~skipped =>
                  /\ tt.entry.hit
                  /\ tt.entry.value = value_to_tt(s.bestValue, s.ply)
                  /\ tt.entry.depth = s.depth
                  /\ tt.entry.move = s.bestMove
                  /\ (tt.entry.bound = "lower") = (s.bestValue >= s.beta)
                  /\ (tt.entry.bound = "exact") =
                        (s.bestValue < s.beta /\ s.kind.type # "NonPV" /\ s.bestMove)
                  /\ tt.entry.bound \in {"lower", "exact", "upper"}

C20_Witness ==
    /\ tt.save # <<>>
    /\ tt.probe = <<>>
    /\ tt.save.called
    /\ tt.save.kind.type = "PV"
    /\ tt.save.ply > 0
    /\ tt.entry.bound = "exact"
    /\ Abs(tt.save.bestValue) >= VALUE_MATE_IN_MAX_PLY


(***************************************************************************)
(* SpecKey: two boards played from the same position by different move     *)
(* orders, and the key the search probes with. Position::do_move and the   *)
(* Zobrist tables (position.cpp) and make_key (misc.h) are not among the   *)
(* sources: st->key is the XOR of one Zobrist number per piece on its      *)
(* square and one for the side to move, kept here as the set of the        *)
(* numbers that are XORed in; make_key gives a different number for        *)
(* every seed.                                                             *)
(***************************************************************************)
\* the rule-50 count a board gets to
MaxRule50 == 22

\* a ^ b on keys kept as sets of Zobrist numbers
Xor(a, b) == (a \ b) \cup (b \ a)

make_key(seed) == {<<"make_key", seed>>}

adjust_key50_Unadjusted(AfterMove, k, rule50) == k

\* Key Position::adjust_key50<AfterMove>(Key k):
\*   st->rule50 < 14 - AfterMove ? k : k ^ make_key((st->rule50 - (14 - AfterMove)) / 8)
adjust_key50(AfterMove, k, rule50) ==
    LET a == IF AfterMove THEN 1 ELSE 0
    IN  IF rule50 < 14 - a THEN k ELSE Xor(k, make_key((rule50 - (14 - a)) \div 8))

\* Key Position::key(): adjust_key50<false>(st->key)
Position_key(p) == adjust_key50(FALSE, p.st.key, p.st.rule50)

\* the moves of the boards: a pawn move, and knight moves there and back
KeyMoves ==
    {[pc |-> "wP", from |-> "a2", to |-> "a3"],
     [pc |-> "wN", from |-> "g1", to |-> "f3"], [pc |-> "wN", from |-> "f3", to |-> "g1"],
     [pc |-> "bN", from |-> "g8", to |-> "f6"], [pc |-> "bN", from |-> "f6", to |-> "g8"]}

\* the position both boards start from, white to move, key from set_state
KeyStart ==
    [on |-> [pc \in {"wP", "wN", "bN"} |->
                IF pc = "wP" THEN "a2" ELSE IF pc = "wN" THEN "g1" ELSE "g8"],
     white |-> TRUE,
     st |-> [key |-> {<<"wP", "a2">>, <<"wN", "g1">>, <<"bN", "g8">>}, rule50 |-> 0]]

\* Position::do_move of a quiet move: the piece moves, the side changes, the
\* key takes the Zobrist numbers of both squares and of the side, rule50 is
\* reset by a pawn move and counted up otherwise
KeyDoMove(p, m) ==
    [on |-> [p.on EXCEPT ![m.pc] = m.to],
     white |-> ~p.white,
     st |-> [key |-> Xor(Xor(Xor(p.st.key, {<<m.pc, m.from>>}), {<<m.pc, m.to>>}), {<<"side">>}),
             rule50 |-> IF m.pc = "wP" THEN 0 ELSE p.st.rule50 + 1]]

InitKey ==
    /\ EngineInit
    /\ tt = <<>>
    /\ aNode = <<>>
    /\ rec = <<>>
    /\ board = [a |-> KeyStart, b |-> KeyStart]
    /\ asp = <<>>

\* a legal move is made on one of the boards
KeyMove ==
    /\ \E x \in {"a", "b"}, m \in KeyMoves :
          /\ board[x].on[m.pc] = m.from
          /\ (m.pc \in {"wP", "wN"}) = board[x].white
          /\ board[x].st.rule50 < MaxRule50
          /\ board' = [board EXCEPT ![x] = KeyDoMove(@, m)]
    /\ UNCHANGED <<searchVars, game, tt, asp, rec, aNode>>

SpecKey == InitKey /\ [][KeyMove]_vars

\* the two boards hold the same position: placement and side to move (no
\* castling right and no en-passant square on either)
SamePosition == board.a.on = board.b.on /\ board.a.white = board.b.white

\* the part of the rule-50 count that key() mixes in
Rule50Part(p) == IF p.st.rule50 < 14 THEN -1 ELSE (p.st.rule50 - 14) \div 8

\* C12 as stated: two move orders that reach the same position give the
\* same Position::key().
C12_Original == SamePosition => Position_key(board.a) = Position_key(board.b)

\* C12: two move orders that reach the same position give the same st->key;
\* Position::key() is the same for both exactly when their rule-50 counts
\* are both below 14 or give the same (rule50 - 14) / 8.
C12_KeyOfPosition ==
    SamePosition =>
        /\ board.a.st.key = board.b.st.key
        /\ (Position_key(board.a) = Position_key(board.b)) =
              (Rule50Part(board.a) = Rule50Part(board.b))

C12_Witness ==
    /\ SamePosition
    /\ board.a.st.rule50 = 0
    /\ board.b.st.rule50 >= 14
    /\ board.a.on["wP"] = "a3"
    /\ Position_key(board.a) # Position_key(board.b)


(***************************************************************************)
(* SpecPieces: the piece tables of a Position under put_piece,             *)
(* remove_piece and move_piece, from the empty board. A Bitboard is the    *)
(* set of its squares. A Piece is its colour and type; NO_PIECE is 0, the  *)
(* number make_piece(WHITE, ALL_PIECES) gives as well.                     *)
(***************************************************************************)
\* squares of the board
NumSquares == 4

Squares == 1..NumSquares
PieceTypes == {"PAWN", "KNIGHT", "KING"}
make_piece(c, pt) == [c |-> c, t |-> pt]
NO_PIECE == make_piece("WHITE", "ALL_PIECES")
Pieces == {make_piece("WHITE", "PAWN"), make_piece("WHITE", "KNIGHT"),
           make_piece("BLACK", "PAWN"), make_piece("BLACK", "KING")}

\* Position after std::memset(this, 0, sizeof(Position))
EmptyBoard ==
    [board |-> [s \in Squares |-> NO_PIECE],
     byTypeBB |-> [pt \in PieceTypes \cup {"ALL_PIECES"} |-> {}],
     byColorBB |-> [c \in {"WHITE", "BLACK"} |-> {}],
     pieceCount |-> [pc \in Pieces \cup {make_piece("WHITE", "ALL_PIECES"),
                                         make_piece("BLACK", "ALL_PIECES")} |-> 0]]

put_piece_NoColor(p, pc, s) ==
    LET byType == [p.byTypeBB EXCEPT ![pc.t] = @ \cup {s}]
    IN  [p EXCEPT
           !.board[s] = pc,
           !.byTypeBB = [byType EXCEPT !["ALL_PIECES"] = @ \cup byType[pc.t]],
           !.pieceCount = [p.pieceCount EXCEPT
                              ![pc] = @ + 1,
                              ![make_piece(pc.c, "ALL_PIECES")] = @ + 1]]

\* void Position::put_piece(Piece pc, Square s)
put_piece(p, pc, s) ==
    LET byType == [p.byTypeBB EXCEPT ![pc.t] = @ \cup {s}]
    IN  [p EXCEPT
           !.board[s] = pc,
           !.byTypeBB = [byType EXCEPT !["ALL_PIECES"] = @ \cup byType[pc.t]],
           !.byColorBB[pc.c] = @ \cup {s},
           !.pieceCount = [p.pieceCount EXCEPT
                              ![pc] = @ + 1,
                              ![make_piece(pc.c, "ALL_PIECES")] = @ + 1]]

\* void Position::remove_piece(Square s)
remove_piece(p, s) ==
    LET pc == p.board[s]
        byType == [p.byTypeBB EXCEPT !["ALL_PIECES"] = Xor(@, {s})]
    IN  [p EXCEPT
           !.byTypeBB = [byType EXCEPT ![pc.t] = Xor(@, {s})],
           !.byColorBB[pc.c] = Xor(@, {s}),
           !.board[s] = NO_PIECE,
           !.pieceCount = [p.pieceCount EXCEPT
                              ![pc] = @ - 1,
                              ![make_piece(pc.c, "ALL_PIECES")] = @ - 1]]

\* void Position::move_piece(Square from, Square to)
move_piece(p, from, to) ==
    LET pc == p.board[from]
        fromTo == {from, to}
        byType == [p.byTypeBB EXCEPT !["ALL_PIECES"] = Xor(@, fromTo)]
        b == [p.board EXCEPT ![from] = NO_PIECE]
    IN  [p EXCEPT
           !.byTypeBB = [byType EXCEPT ![pc.t] = Xor(@, fromTo)],
           !.byColorBB[pc.c] = Xor(@, fromTo),
           !.board = [b EXCEPT ![to] = pc]]

InitPieces ==
    /\ EngineInit
    /\ tt = <<>>
    /\ aNode = <<>>
    /\ rec = <<>>
    /\ board = EmptyBoard
    /\ asp = <<>>

\* put_piece on an empty square
PutPiece ==
    /\ \E pc \in Pieces, s \in Squares :
          /\ board.board[s] = NO_PIECE
          /\ board' = put_piece(board, pc, s)
    /\ UNCHANGED <<searchVars, game, tt, asp, rec, aNode>>

\* remove_piece on an occupied square
RemovePiece ==
    /\ \E s \in Squares :
          /\ board.board[s] # NO_PIECE
          /\ board' = remove_piece(board, s)
    /\ UNCHANGED <<searchVars, game, tt, asp, rec, aNode>>

\* move_piece from an occupied square to an empty one
MovePiece ==
    /\ \E from \in Squares, to \in Squares :
          /\ board.board[from] # NO_PIECE
          /\ board.board[to] = NO_PIECE
          /\ board' = move_piece(board, from, to)
    /\ UNCHANGED <<searchVars, game, tt, asp, rec, aNode>>

NextPieces == PutPiece \/ RemovePiece \/ MovePiece

SpecPieces == InitPieces /\ [][NextPieces]_vars

\* C13: byTypeBB[ALL_PIECES] is the union of the two colour sets, which are
\* disjoint; the sets of the piece types are pairwise disjoint and their
\* union is ALL_PIECES; board[s] is pc exactly when s is in pc's type set and
\* in pc's colour set; pieceCount[pc] is the number of squares holding pc.
C13_PieceTables ==
    /\ board.byTypeBB["ALL_PIECES"] = board.byColorBB["WHITE"] \cup board.byColorBB["BLACK"]
    /\ board.byColorBB["WHITE"] \cap board.byColorBB["BLACK"] = {}
    /\ \A t1 \in PieceTypes, t2 \in PieceTypes :
          t1 # t2 => board.byTypeBB[t1] \cap board.byTypeBB[t2] = {}
    /\ UNION {board.byTypeBB[pt] : pt \in PieceTypes} = board.byTypeBB["ALL_PIECES"]
    /\ \A s \in Squares, pc \in Pieces :
          (board.board[s] = pc) = (s \in board.byTypeBB[pc.t] /\ s \in board.byColorBB[pc.c])
    /\ \A pc \in Pieces :
          board.pieceCount[pc] = Cardinality({s \in Squares : board.board[s] = pc})

C13_Witness ==
    /\ board.pieceCount[make_piece("WHITE", "PAWN")] = 2
    /\ board.pieceCount[make_piece("BLACK", "PAWN")] = 1
    /\ board.board[1] = NO_PIECE
    /\ board.byColorBB["BLACK"] = {2}


(***************************************************************************)
(* SpecPerft: perft<Root = true>, one task per root move on the thread     *)
(* pool (BS::thread_pool is not among the sources: push_loop with as many  *)
(* threads as moves hands every index to a task of its own, and the tasks  *)
(* run in any interleaving). A position is the line of moves played from   *)
(* the root of the game tree and the number of StateInfo records behind    *)
(* it; the legal moves depend on the line only.                            *)
(***************************************************************************)
\* deepest perft asked for
MaxPerftDepth == 3

\* MoveList<LEGAL>(pos).size() on the game tree of this specification
PerftListSize(p) ==
    LET l == p.line
    IN  IF Len(l) = 0 THEN 3
        ELSE IF Len(l) = 1 THEN l[1]
        ELSE IF Len(l) = 2 THEN (l[1] + l[2]) % 3
        ELSE 1

\* do_move<false>(list[i], st) and undo_move<false>(list[i])
PerftDo(p, i) == [line |-> Append(p.line, i), states |-> p.states + 1]
PerftUndo(p) == [line |-> SubSeq(p.line, 1, Len(p.line) - 1), states |-> p.states - 1]

\* copy.set(pos.fen(), ...): the position that the FEN describes, with a new
\* state list
PerftCopy(p) == [line |-> p.line, states |-> 1]

\* perft<false, Verbose>(pos, depth): the sequential count, each move made
\* and unmade on pos itself
RECURSIVE perft(_, _)
perft(p, depth) ==
    LET n == PerftListSize(p)
        sum[i \in 0..n] ==
            IF i = 0 THEN 0
            ELSE LET q == PerftDo(p, i)
                 IN  sum[i - 1] + (IF depth = 2 THEN PerftListSize(q) ELSE perft(q, depth - 1))
    IN  IF depth = 1 THEN n ELSE sum[n]

FetchAdd_Store(n, cnt) == cnt

\* std::atomic_uint64_t: nodes += cnt
FetchAdd(n, cnt) == n + cnt

InitPerft ==
    /\ EngineInit
    /\ tt = <<>>
    /\ aNode = <<>>
    /\ rec = <<>>
    /\ asp = <<>>
    /\ \E line \in {<<>>, <<2>>, <<3>>, <<3, 3>>, <<1, 1>>}, depth \in 2..MaxPerftDepth :
          LET p == [line |-> line, states |-> 1 + Len(line)]
          IN  board = [pos |-> p, depth |-> depth, nodes |-> 0, result |-> -1,
                       task |-> [i \in 1..PerftListSize(p) |->
                                    [pc |-> "queued", copy |-> <<>>, cnt |-> 0]]]

\* the next step of the task of root move i: its copy of the position, the
\* move, the count below it, the addition to nodes, the undo
PerftTask(i) ==
    /\ i \in DOMAIN board.task
    /\ LET t == board.task[i]
           leaf == board.depth = 2
       IN  CASE t.pc = "queued" ->
                  board' = [board EXCEPT !.task[i] = [t EXCEPT !.pc = "set",
                                                        !.copy = PerftCopy(board.pos)]]
             [] t.pc = "set" ->
                  board' = [board EXCEPT !.task[i] = [t EXCEPT !.pc = "made",
                                                        !.copy = PerftDo(t.copy, i)]]
             [] t.pc = "made" ->
                  board' = [board EXCEPT !.task[i] =
                               [t EXCEPT !.pc = "counted",
                                         !.cnt = IF leaf THEN PerftListSize(t.copy)
                                                 ELSE perft(t.copy, board.depth - 1)]]
             [] t.pc = "counted" ->
                  board' = [board EXCEPT !.nodes = FetchAdd(@, t.cnt),
                                         !.task[i] = [t EXCEPT !.pc = "added"]]
             [] t.pc = "added" ->
                  board' = [board EXCEPT !.task[i] = [t EXCEPT !.pc = "done",
                                                        !.copy = PerftUndo(t.copy)]]
             [] t.pc = "done" -> FALSE
    /\ UNCHANGED <<searchVars, game, tt, asp, rec, aNode>>

\* pool.wait_for_tasks(); return nodes
PerftReturn ==
    /\ board.result = -1
    /\ \A i \in DOMAIN board.task : board.task[i].pc = "done"
    /\ board' = [board EXCEPT !.result = board.nodes]
    /\ UNCHANGED <<searchVars, game, tt, asp, rec, aNode>>

NextPerft == (\E i \in 1..3 : PerftTask(i)) \/ PerftReturn

SpecPerft == InitPerft /\ [][NextPerft]_vars

\* C14: for depth >= 2 the parallel root perft returns the count of the
\* sequential perft, in every interleaving of its tasks, and the caller's
\* position is never changed.
C14_ParallelPerft ==
    /\ [](board.result # -1 => board.result = perft(board.pos, board.depth))
    /\ [][board'.pos = board.pos]_vars

C14_Witness ==
    /\ board.result = 3
    /\ board.depth = 3
    /\ Len(board.pos.line) = 1
    /\ Cardinality(DOMAIN board.task) = 3

(***************************************************************************)
(* SpecAsp: the aspiration loop of Thread::search for one PV line of one   *)
(* iteration.  asp holds the locals of Thread::search that the loop reads  *)
(* and writes; the root search is a step that returns any value strictly   *)
(* inside (-VALUE_INFINITE, VALUE_INFINITE).                               *)
(***************************************************************************)
\* rootMoves[pvIdx].averageScore: -VALUE_INFINITE before the first score
AspAverages == {-VALUE_INFINITE, -3000, 0, 20000, VALUE_MATE}

AspRootDepths == {3, 4}

\* alpha, beta and delta before the iterative deepening loop
AspStart(classic) ==
    IF classic
    THEN [delta |-> -VALUE_INFINITE, alpha |-> -VALUE_INFINITE, beta |-> VALUE_INFINITE]
    ELSE [delta |-> 0, alpha |-> 0, beta |-> 0]

\* "Reset aspiration window starting size"
AspReset(classic, rootDepth, avg, w) ==
    IF ~classic
    THEN LET delta == 9 + CDiv(avg * avg, 14847)
         IN  [delta |-> delta,
              alpha |-> Max(avg - delta, -VALUE_INFINITE),
              beta |-> Min(avg + delta, VALUE_INFINITE)]
    ELSE IF rootDepth >= 4
    THEN LET delta == 10 + CDiv(avg * avg, 15620)
         IN  [delta |-> delta,
              alpha |-> Max(avg - delta, -VALUE_INFINITE),
              beta |-> Min(avg + delta, VALUE_INFINITE)]
    ELSE w

AspGrow_None(classic, delta) == delta

\* delta += useClassic ? delta / 4 + 2 : delta / 3
AspGrow(classic, delta) ==
    delta + (IF classic THEN CDiv(delta, 4) + 2 ELSE CDiv(delta, 3))

AspFailLow_KeepBeta(a, bestValue) ==
    [a EXCEPT !.alpha = Max(bestValue - a.delta, -VALUE_INFINITE),
              !.failedHighCnt = 0]

\* bestValue <= alpha
AspFailLow(a, bestValue) ==
    [a EXCEPT !.beta = CDiv(a.alpha + a.beta, 2),
              !.alpha = Max(bestValue - a.delta, -VALUE_INFINITE),
              !.failedHighCnt = 0]

\* bestValue >= beta
AspFailHigh(a, bestValue) ==
    [a EXCEPT !.beta = Min(bestValue + a.delta, VALUE_INFINITE),
              !.failedHighCnt = @ + 1]

\* the values the root search may return: a grid of scores, and on the first
\* search of the loop the two ends of the window
AspScores == {1 - VALUE_INFINITE, -3000, -50, 0, 50, 3000, VALUE_INFINITE - 1}

AspResults(a) ==
    {v \in AspScores \cup (IF a.last = "none" THEN {a.alpha, a.beta} ELSE {}) :
        -VALUE_INFINITE < v /\ v < VALUE_INFINITE}

InitAsp ==
    /\ EngineInit
    /\ tt = <<>>
    /\ aNode = <<>>
    /\ rec = <<>>
    /\ board = <<>>
    /\ \E classic \in BOOLEAN, rootDepth \in AspRootDepths, avg \in AspAverages :
          LET w == AspReset(classic, rootDepth, avg, AspStart(classic))
          IN  asp = [pc |-> "search", classic |-> classic, rootDepth |-> rootDepth,
                     avg |-> avg, alpha |-> w.alpha, beta |-> w.beta, delta |-> w.delta,
                     failedHighCnt |-> 0, bestValue |-> -VALUE_INFINITE,
                     stop |-> FALSE, last |-> "none"]

\* the root search of the loop: it returns a value, and Threads.stop may have
\* been raised meanwhile
AspSearch ==
    /\ asp.pc = "search"
    /\ \E v \in AspResults(asp), s \in BOOLEAN :
          asp' = [asp EXCEPT !.pc = "post", !.bestValue = v, !.stop = s]
    /\ UNCHANGED <<searchVars, game, tt, board, rec, aNode>>

\* the rest of the loop body: break on stop, widen on a fail, or leave
AspWiden ==
    /\ asp.pc = "post"
    /\ asp' =
          IF asp.stop THEN [asp EXCEPT !.pc = "exit"]
          ELSE IF asp.bestValue <= asp.alpha
          THEN [AspFailLow(asp, asp.bestValue) EXCEPT
                   !.delta = AspGrow(asp.classic, asp.delta),
                   !.pc = "search", !.last = "low"]
          ELSE IF asp.bestValue >= asp.beta
          THEN [AspFailHigh(asp, asp.bestValue) EXCEPT
                   !.delta = AspGrow(asp.classic, asp.delta),
                   !.pc = "search", !.last = "high"]
          ELSE [asp EXCEPT !.pc = "exit"]
    /\ UNCHANGED <<searchVars, game, tt, board, rec, aNode>>

NextAsp == AspSearch \/ AspWiden

SpecAsp == InitAsp /\ [][NextAsp]_vars

\* the thread that runs the loop keeps running
SpecAspFair == SpecAsp /\ WF_vars(NextAsp)

AspReSearch == asp.pc = "post" /\ asp'.pc = "search"

AspWindowUpdate ==
    /\ (AspReSearch /\ asp.bestValue <= asp.alpha) =>
          /\ asp'.beta = CDiv(asp.alpha + asp.beta, 2)
          /\ asp'.alpha = Max(asp.bestValue - asp.delta, -VALUE_INFINITE)
    /\ (AspReSearch /\ asp.bestValue > asp.alpha) =>
          /\ asp.bestValue >= asp.beta
          /\ asp'.beta = Min(asp.bestValue + asp.delta, VALUE_INFINITE)
          /\ asp'.alpha = asp.alpha

AspWindowOk ==
    asp.pc = "search" =>
       /\ -VALUE_INFINITE <= asp.alpha
       /\ asp.alpha < asp.beta
       /\ asp.beta <= VALUE_INFINITE

\* the statement with delta/3 for every build of the loop
C16_Original ==
    /\ [][AspWindowUpdate]_vars
    /\ [][AspReSearch => asp'.delta = asp.delta + CDiv(asp.delta, 3)]_vars
    /\ []AspWindowOk

\* C16: after a fail low the window becomes beta' = (alpha + beta) / 2 and
\* alpha' = max(bestValue - delta, -VALUE_INFINITE), after a fail high
\* beta' = min(bestValue + delta, VALUE_INFINITE) with alpha unchanged; delta
\* then grows by delta / 3, and by delta / 4 + 2 when the classic search is
\* in use; for results strictly inside (-VALUE_INFINITE, VALUE_INFINITE)
\* every root search is called with -VALUE_INFINITE <= alpha < beta <=
\* VALUE_INFINITE.
C16_AspirationWindow ==
    /\ [][AspWindowUpdate]_vars
    /\ [][AspReSearch =>
             asp'.delta = asp.delta + (IF asp.classic THEN CDiv(asp.delta, 4) + 2
                                       ELSE CDiv(asp.delta, 3))]_vars
    /\ []AspWindowOk

\* a re-search after a fail low that followed a fail high, its alpha above
\* -VALUE_INFINITE
C16_Witness ==
    /\ asp.pc = "search"
    /\ asp.last = "low"
    /\ asp.failedHighCnt = 0
    /\ asp.alpha > -VALUE_INFINITE
    /\ asp.beta < asp.avg
    /\ ~asp.classic

\* C17: for results strictly inside (-VALUE_INFINITE, VALUE_INFINITE) the
\* aspiration loop ends after finitely many re-searches: delta strictly
\* grows on every re-search, and with alpha = -VALUE_INFINITE and beta =
\* VALUE_INFINITE the loop exits after the search.
C17_AspirationEnds ==
    /\ [][AspReSearch => asp'.delta > asp.delta]_vars
    /\ [][(asp.pc = "post" /\ asp.alpha = -VALUE_INFINITE /\ asp.beta = VALUE_INFINITE)
             => asp'.pc = "exit"]_vars
    /\ <>(asp.pc = "exit")

\* the loop left with the full window, reached from delta = 9 by re-searches
C17_Witness ==
    /\ asp.pc = "exit"
    /\ ~asp.stop
    /\ asp.avg = 0
    /\ ~asp.classic
    /\ asp.alpha = -VALUE_INFINITE
    /\ asp.beta = VALUE_INFINITE
    /\ asp.last = "high"

(***************************************************************************)
(* SpecPly: the recursion of search() and qsearch().  rec.stack is the     *)
(* chain of calls in progress, each with its Stack slot (ply), its depth   *)
(* and the place it will resume at; rec.lo and rec.hi are the lowest and   *)
(* highest index of Thread::search's stack[] a call has read or written.   *)
(* What the position and the scores decide is a free choice.               *)
(***************************************************************************)
\* calls in progress above the first one
MaxFrames == 4
\* moves a move loop gets to try
MaxPlyMoves == 2
\* Stack stack[MAX_PLY + 10], *ss = stack + 7
SsOffset == 7
StackSize == MAX_PLY + 10

PlyDepths == {2, 30}

PlyRanges == {"CAPABLANCA", "HIGH_TAL", "LOW_PETROSIAN"}

isShashinPositionTal(range) ==
    range \in {"HIGH_TAL", "MIDDLE_HIGH_TAL", "MIDDLE_TAL", "MIDDLE_LOW_TAL", "LOW_TAL"}

isShashinHigh(range) == range \notin {"HIGH_PETROSIAN", "HIGH_TAL"}

isShashinHighMiddle(range) ==
    isShashinHigh(range) /\ range \notin {"MIDDLE_HIGH_PETROSIAN", "MIDDLE_HIGH_TAL"}

\* a call: fn(pos, ss, ..., depth) with ss->ply = ply; excl is
\* ss->excludedMove, prevNull is (ss - 1)->currentMove == Move::null(),
\* inCheck is ss->inCheck once Step 1 has set it
PlyFrame(fn, kind, ply, depth, pv, excl, prevNull) ==
    [fn |-> fn, kind |-> kind, ply |-> ply, depth |-> depth, pv |-> pv, excl |-> excl,
     prevNull |-> prevNull, inCheck |-> FALSE, pc |-> "entry", moveCount |-> 0, R |-> 0]

PlyTop == rec.stack[Len(rec.stack)]

\* the caller moves to f and calls c
PlyCall(f, c) == Append([rec.stack EXCEPT ![Len(rec.stack)] = f], c)

PlyGoto(f) == [rec.stack EXCEPT ![Len(rec.stack)] = f]

PlyReturn == SubSeq(rec.stack, 1, Len(rec.stack) - 1)

\* the slots (ss + from) .. (ss + to) of the call at ply are accessed
PlyTouch(r, ply, from, to) ==
    [r EXCEPT !.lo = Min(@, SsOffset + ply + from), !.hi = Max(@, SsOffset + ply + to)]

\* ss->ply >= MAX_PLY of Step 2
PlyLimit(ply) == ply >= MAX_PLY

\* the condition around Steps 7 to 9
PlySteps7to9(r, f) ==
    \/ ~r.Shashin
    \/ ~f.pv /\ (f.ply % 2 = 0 \/ ~f.excl) /\ ~r.nmpGuardV
    \/ r.range # "HIGH_TAL"

\* the razoring qsearch may run
PlyRazor(r, f) ==
    \/ ~r.Shashin
    \/ f.ply % 2 # 0
    \/ r.range \notin {"HIGH_TAL", "CAPABLANCA"}

\* Step 9 without the test of nmpGuard
PlyNullMove_NoGuard(r, f) ==
    LET plain == ~f.pv /\ ~f.prevNull /\ ~f.excl /\ f.ply >= r.nmpMinPly
    IN  IF ~r.Shashin THEN plain
        ELSE \/ (isShashinHighMiddle(r.range) \/ ~isShashinPositionTal(r.range)) /\ plain
             \/ ~isShashinHighMiddle(r.range) /\ isShashinPositionTal(r.range)

\* Step 9 applies as far as the call, the stack and the thread decide
PlyNullMove(r, f) ==
    LET plain == ~f.pv /\ ~f.prevNull /\ ~f.excl /\ f.ply >= r.nmpMinPly
    IN  IF ~r.Shashin THEN plain
        ELSE \/ (isShashinHighMiddle(r.range) \/ ~isShashinPositionTal(r.range)) /\ plain
             \/ ~isShashinHighMiddle(r.range) /\ isShashinPositionTal(r.range) /\ ~r.nmpGuard

\* Depth R = std::min(int(eval - beta) / 144, 6) + depth / 3 + 4
PlyNullR(byEval, depth) == byEval + depth \div 3 + 4

\* Depth singularDepth = newDepth / 2, newDepth = depth - 1
PlySingularDepth(depth) == (depth - 1) \div 2

InitPly ==
    /\ EngineInit
    /\ tt = <<>>
    /\ aNode = <<>>
    /\ board = <<>>
    /\ asp = <<>>
    /\ \E ply \in {0, MAX_PLY - 2}, depth \in PlyDepths, pv \in BOOLEAN,
          sh \in {<<FALSE, "CAPABLANCA">>} \cup ({TRUE} \X PlyRanges) :
          /\ ply = 0 => pv
          /\ rec = [stack |-> <<PlyFrame("search", IF ply = 0 THEN "root" ELSE "move",
                                         ply, depth, pv, FALSE, FALSE)>>,
                    nmpMinPly |-> 0, nmpGuard |-> FALSE, nmpGuardV |-> FALSE,
                    Shashin |-> sh[1], range |-> sh[2], null |-> <<>>,
                    lo |-> SsOffset + ply, hi |-> SsOffset + ply]

\* the call is made on the position of the call below it on the stack
PlySamePosition(f) == f.kind \in {"verify", "singular", "razor"}

\* the whole condition of Step 9; material is pos.non_pawn_material(us),
\* evalOk is eval >= beta with the tests on statScore and staticEval
NullMoveCondition(r, f, material, evalOk) ==
    /\ ~f.inCheck
    /\ material /\ evalOk
    /\ PlySteps7to9(r, f)
    /\ PlyNullMove(r, f)

\* search() up to Step 7: the dive into qsearch, Step 2, the writes to
\* (ss + 1) and (ss + 2), the early returns of Steps 3 to 6, razoring
PlyEntry ==
    /\ rec.stack # <<>>
    /\ PlyTop.fn = "search" /\ PlyTop.pc = "entry"
    /\ LET f == PlyTop IN
       IF f.depth <= 0
       THEN rec' = [rec EXCEPT !.stack = PlyGoto([f EXCEPT !.fn = "qsearch", !.depth = 0])]
       ELSE \E abort \in BOOLEAN, choice \in {"return", "razor", "on"}, inCheck \in BOOLEAN :
            IF f.kind # "root" /\ (abort \/ PlyLimit(f.ply))
            THEN rec' = [rec EXCEPT !.stack = PlyReturn]
            ELSE LET r == PlyTouch(rec, f.ply, -7, 2)
                     g == [f EXCEPT !.inCheck = inCheck] IN
                 /\ ~abort
                 /\ PlySamePosition(f) => inCheck = rec.stack[Len(rec.stack) - 1].inCheck
                 /\ CASE choice = "return" ->
                           /\ f.kind # "root"
                           /\ rec' = [r EXCEPT !.stack = PlyReturn]
                      [] choice = "razor" ->
                           /\ ~inCheck
                           /\ ~f.pv /\ PlySteps7to9(rec, f) /\ PlyRazor(rec, f)
                           /\ Len(rec.stack) < MaxFrames
                           /\ rec' = [r EXCEPT !.stack =
                                         PlyCall([g EXCEPT !.pc = "afterRazor"],
                                                 PlyFrame("qsearch", "razor", f.ply, 0, FALSE,
                                                          f.excl, f.prevNull))]
                      [] OTHER ->
                           rec' = [r EXCEPT !.stack =
                                      PlyGoto([g EXCEPT !.pc = IF inCheck THEN "moves"
                                                               ELSE "step9"])]
    /\ UNCHANGED <<searchVars, game, tt, board, asp, aNode>>

\* value < alpha returns; otherwise on to Steps 8 and 9
PlyAfterRazor ==
    /\ rec.stack # <<>>
    /\ PlyTop.pc = "afterRazor"
    /\ \/ rec' = [rec EXCEPT !.stack = PlyReturn]
       \/ rec' = [rec EXCEPT !.stack = PlyGoto([PlyTop EXCEPT !.pc = "step9"])]
    /\ UNCHANGED <<searchVars, game, tt, board, asp, aNode>>

\* Steps 8 and 9: the futility return, the null move search, or on to the
\* move loop
PlyStep9 ==
    /\ rec.stack # <<>>
    /\ PlyTop.pc = "step9"
    /\ LET f == PlyTop IN
       \/ /\ ~f.pv /\ PlySteps7to9(rec, f)
          /\ rec' = [rec EXCEPT !.stack = PlyReturn]
       \/ /\ Len(rec.stack) < MaxFrames
          /\ \E byEval \in {0, 6}, material \in BOOLEAN, evalOk \in BOOLEAN :
                LET R == PlyNullR(byEval, f.depth) IN
                /\ NullMoveCondition(rec, f, material, evalOk)
                /\ rec' = [rec EXCEPT
                           !.null = [pv |-> f.pv, inCheck |-> f.inCheck, excl |-> f.excl,
                                     prevNull |-> f.prevNull, material |-> material,
                                     evalOk |-> evalOk, ply |-> f.ply,
                                     nmpMinPly |-> rec.nmpMinPly],
                           !.nmpGuard = IF rec.Shashin THEN TRUE ELSE @,
                           !.stack = PlyCall([f EXCEPT !.pc = "afterNull", !.R = R],
                                             PlyFrame("search", "null", f.ply + 1, f.depth - R,
                                                      FALSE, FALSE, TRUE))]
       \/ rec' = [rec EXCEPT !.stack = PlyGoto([f EXCEPT !.pc = "moves"])]
    /\ UNCHANGED <<searchVars, game, tt, board, asp, aNode>>

\* after the null move search: return nullValue, the verification search at
\* the same ply, or on to the move loop
PlyAfterNull ==
    /\ rec.stack # <<>>
    /\ PlyTop.pc = "afterNull"
    /\ LET f == PlyTop
           r == [rec EXCEPT !.nmpGuard = IF rec.Shashin THEN FALSE ELSE @]
       IN \E failHigh \in BOOLEAN :
          IF ~failHigh
          THEN rec' = [r EXCEPT !.stack = PlyGoto([f EXCEPT !.pc = "moves"])]
          ELSE IF rec.nmpMinPly # 0 \/ f.depth < 15
          THEN rec' = [r EXCEPT !.stack = PlyReturn]
          ELSE rec' = [r EXCEPT
                          !.nmpMinPly = IF ~rec.Shashin \/ rec.range # "CAPABLANCA"
                                        THEN f.ply + (3 * (f.depth - f.R)) \div 4 ELSE @,
                          !.nmpGuardV = IF rec.Shashin THEN TRUE ELSE @,
                          !.stack = PlyCall([f EXCEPT !.pc = "afterVerify"],
                                            PlyFrame("search", "verify", f.ply, f.depth - f.R,
                                                     FALSE, f.excl, f.prevNull))]
    /\ UNCHANGED <<searchVars, game, tt, board, asp, aNode>>

\* after the verification search: nmpMinPly is cleared; return nullValue or
\* on to the move loop
PlyAfterVerify ==
    /\ rec.stack # <<>>
    /\ PlyTop.pc = "afterVerify"
    /\ LET r == [rec EXCEPT
                    !.nmpGuardV = IF rec.Shashin THEN FALSE ELSE @,
                    !.nmpMinPly = IF ~rec.Shashin \/ rec.range # "HIGH_TAL" THEN 0 ELSE @]
       IN \/ rec' = [r EXCEPT !.stack = PlyReturn]
          \/ rec' = [r EXCEPT !.stack = PlyGoto([PlyTop EXCEPT !.pc = "moves"])]
    /\ UNCHANGED <<searchVars, game, tt, board, asp, aNode>>

\* the next move of the move loop of search(): the singular search at the same
\* ply, the move and the search below it, or the end of the loop
PlyMoves ==
    /\ rec.stack # <<>>
    /\ PlyTop.fn = "search" /\ PlyTop.pc = "moves"
    /\ LET f == PlyTop IN
       \/ /\ f.kind # "root" \/ f.moveCount > 0
          /\ rec' = [rec EXCEPT !.stack = PlyReturn]
       \/ /\ f.moveCount < MaxPlyMoves /\ Len(rec.stack) < MaxFrames
          /\ f.kind # "root" /\ ~f.excl /\ f.depth >= 3
          /\ rec' = [rec EXCEPT !.stack =
                        PlyCall([f EXCEPT !.pc = "afterSingular", !.excl = TRUE,
                                          !.moveCount = @ + 1],
                                PlyFrame("search", "singular", f.ply, PlySingularDepth(f.depth),
                                         FALSE, TRUE, f.prevNull))]
       \/ /\ f.moveCount < MaxPlyMoves /\ Len(rec.stack) < MaxFrames
          /\ \E extension \in {0, 1}, pv \in BOOLEAN :
                /\ pv => f.pv
                /\ rec' = [rec EXCEPT !.stack =
                              PlyCall([f EXCEPT !.pc = "afterMove", !.moveCount = @ + 1],
                                      PlyFrame("search", "move", f.ply + 1,
                                               f.depth - 1 + extension, pv, FALSE, FALSE))]
    /\ UNCHANGED <<searchVars, game, tt, board, asp, aNode>>

\* after the singular search: ss->excludedMove is cleared; the multi-cut
\* return, or the move is made and searched
PlyAfterSingular ==
    /\ rec.stack # <<>>
    /\ PlyTop.pc = "afterSingular"
    /\ LET f == [PlyTop EXCEPT !.excl = FALSE] IN
       \/ rec' = [rec EXCEPT !.stack = PlyReturn]
       \/ \E extension \in {0, 1} :
             rec' = [rec EXCEPT !.stack =
                        PlyCall([f EXCEPT !.pc = "afterMove"],
                                PlyFrame("search", "move", f.ply + 1, f.depth - 1 + extension,
                                         FALSE, FALSE, FALSE))]
    /\ UNCHANGED <<searchVars, game, tt, board, asp, aNode>>

\* the move is undone and the loop goes on
PlyAfterMove ==
    /\ rec.stack # <<>>
    /\ PlyTop.pc = "afterMove"
    /\ rec' = [rec EXCEPT !.stack = PlyGoto([PlyTop EXCEPT !.pc = "moves"])]
    /\ UNCHANGED <<searchVars, game, tt, board, asp, aNode>>

\* qsearch() up to its move loop: (ss + 1)->pv of a PV node, Step 2, the
\* continuation histories of (ss - 1) and (ss - 2)
PlyQsEntry ==
    /\ rec.stack # <<>>
    /\ PlyTop.fn = "qsearch" /\ PlyTop.pc = "entry"
    /\ LET f == PlyTop
           r == PlyTouch(rec, f.ply, 0, IF f.pv THEN 1 ELSE 0)
       IN \E draw \in BOOLEAN :
          IF draw \/ PlyLimit(f.ply)
          THEN rec' = [r EXCEPT !.stack = PlyReturn]
          ELSE rec' = [PlyTouch(r, f.ply, -2, 0) EXCEPT
                          !.stack = PlyGoto([f EXCEPT !.pc = "moves"])]
    /\ UNCHANGED <<searchVars, game, tt, board, asp, aNode>>

\* the next capture of qsearch() and the qsearch below it, or the end
PlyQsMoves ==
    /\ rec.stack # <<>>
    /\ PlyTop.fn = "qsearch" /\ PlyTop.pc = "moves"
    /\ LET f == PlyTop IN
       \/ rec' = [rec EXCEPT !.stack = PlyReturn]
       \/ /\ f.moveCount < MaxPlyMoves /\ Len(rec.stack) < MaxFrames
          /\ rec' = [rec EXCEPT !.stack =
                        PlyCall([f EXCEPT !.pc = "afterMove", !.moveCount = @ + 1],
                                PlyFrame("qsearch", "move", f.ply + 1, f.depth - 1, f.pv,
                                         FALSE, FALSE))]
    /\ UNCHANGED <<searchVars, game, tt, board, asp, aNode>>

NextPly ==
    \/ PlyEntry \/ PlyAfterRazor \/ PlyStep9 \/ PlyAfterNull \/ PlyAfterVerify
    \/ PlyMoves \/ PlyAfterSingular \/ PlyAfterMove \/ PlyQsEntry \/ PlyQsMoves

\* the thread that runs the search keeps running
SpecPly == InitPly /\ [][NextPly]_vars /\ WF_vars(NextPly)

PlyCalled == Len(rec'.stack) > Len(rec.stack)

\* every call is at the next ply, or at the same ply with a smaller depth
PlyDescends ==
    PlyCalled =>
       LET c == rec'.stack[Len(rec'.stack)]
           f == PlyTop
       IN  \/ c.ply = f.ply + 1
           \/ c.ply = f.ply /\ c.depth < f.depth

\* a call at ply >= MAX_PLY calls nothing
PlyLeaf == (rec.stack # <<>> /\ PlyTop.ply >= MAX_PLY) => ~PlyCalled

PlyInStack ==
    /\ \A i \in DOMAIN rec.stack : rec.stack[i].ply <= MAX_PLY
    /\ 0 <= rec.lo
    /\ rec.hi < StackSize

\* two calls of the same kind in progress at one ply
PlyNested(kind) ==
    \E i, j \in DOMAIN rec.stack :
       /\ i < j
       /\ rec.stack[i].ply = rec.stack[j].ply
       /\ rec.stack[i].kind = kind
       /\ rec.stack[j].kind = kind

\* C18: every search() and qsearch() call ends: a call is at the next ply, and
\* a call at ply >= MAX_PLY makes no move, or at the same ply with a strictly
\* smaller depth, where no singular search runs inside a singular search and
\* no verification search inside a verification search of that ply; ply never
\* exceeds MAX_PLY and the stack slots accessed, (ss - 7) to (ss + 2), are
\* inside stack[MAX_PLY + 10].
C18_SearchTerminates ==
    /\ <>(rec.stack = <<>>)
    /\ [][PlyDescends]_vars
    /\ [][PlyLeaf]_vars
    /\ []PlyInStack
    /\ [](~PlyNested("singular"))
    /\ [](~PlyNested("verify"))

(***************************************************************************)
(* SpecStep2: the first lines of a non-root search() call, up to Step 2,   *)
(* in the three searches (search.cpp, and the classic search without and   *)
(* with SearchMate).  aNode is the call and what it returns there.         *)
(***************************************************************************)
\* evaluate(pos), and the value qsearch hands back
Step2Evals == {-300, 0, 57}

\* Step 2 returns
Step2Returns(variant, s, draw, ply, rule50Draw) ==
    IF variant = "classicMate"
    THEN rule50Draw \/ draw \/ s \/ ply >= MAX_PLY
    ELSE AbortOrDraw(s, draw, ply)

\* the value Step 2 returns
Step2Value(variant, s, draw, ply, inCheck, rule50Draw, n, eval) ==
    IF variant = "classicMate"
    THEN IF rule50Draw \/ draw THEN value_draw(n)
         ELSE IF ply >= MAX_PLY /\ ~inCheck THEN eval ELSE VALUE_ZERO
    ELSE IF ply >= MAX_PLY /\ ~inCheck THEN eval ELSE value_draw(n)

InitStep2 ==
    /\ EngineInit
    /\ tt = <<>>
    /\ board = <<>>
    /\ asp = <<>>
    /\ rec = <<>>
    /\ aNode = <<>>

\* a non-root call: the dive into qsearch at depth <= 0, then Step 2
SearchStep2 ==
    /\ aNode = <<>>
    /\ \E variant \in {"search", "classic", "classicMate"}, depth \in {0, 1},
          s \in BOOLEAN, draw \in BOOLEAN, ply \in {1, MAX_PLY - 1, MAX_PLY},
          inCheck \in BOOLEAN, rule50Draw \in BOOLEAN, n \in 0..4, eval \in Step2Evals :
          /\ rule50Draw => variant = "classicMate"
          /\ LET returned == depth <= 0 \/ Step2Returns(variant, s, draw, ply, rule50Draw)
                 value == IF depth <= 0 THEN eval
                          ELSE Step2Value(variant, s, draw, ply, inCheck, rule50Draw, n, eval)
             IN aNode' = [variant |-> variant, depth |-> depth, stop |-> s, draw |-> draw,
                          ply |-> ply, inCheck |-> inCheck, rule50Draw |-> rule50Draw,
                          nodes |-> n, eval |-> eval, returned |-> returned,
                          value |-> IF returned THEN value ELSE VALUE_NONE]
    /\ UNCHANGED <<searchVars, game, tt, board, asp, rec>>

SpecStep2 == InitStep2 /\ [][SearchStep2]_vars

\* stop is set, the maximum ply is reached or the position is drawn
Step2Case ==
    /\ aNode # <<>>
    /\ aNode.stop \/ aNode.ply >= MAX_PLY \/ aNode.draw \/ aNode.rule50Draw

MaxLegal == 2

\* values of the searches below a move, seen from the node
NodeScores == {1 - VALUE_INFINITE, -45, -1, 0, 45, VALUE_INFINITE - 1}

\* the windows callers pass: alpha, and beta - alpha of a PV window
NodeAlphas == {-VALUE_INFINITE, -VALUE_MATE, 2 - VALUE_MATE, -2, -1, 0, 30}
NodeWidths == {1, 40, 2 * VALUE_INFINITE}

PvNode(type) == type # "NonPV"

\* Step 3, mate distance pruning
MateDistance(ply, alpha, beta) ==
    [alpha |-> Max(mated_in(ply), alpha), beta |-> Min(mate_in(ply + 1), beta)]

\* Step 14 may skip the move
PruningAllowed(type, highTal, bestValue) ==
    IF ~highTal
    THEN type # "Root" /\ bestValue > VALUE_TB_LOSS_IN_MAX_PLY
    ELSE bestValue > VALUE_MATED_IN_MAX_PLY

NoMoveValue_Infinite(excludedMove, inCheck, alpha, ply) == -VALUE_INFINITE

\* probCutBeta of Step 11
ProbCutBeta(beta, improving) == beta + 163 - 67 * (IF improving THEN 1 ELSE 0)

\* the razoring margin 472 + 284 * depth * depth at depth 1
RazorMargin == 756

\* singularBeta = ttValue - 66 * depth / 64 at depth 4
SingularBeta(ttValue) == ttValue - 4

\* alpha = value without the test of beta
AlphaUpdate_NoBetaTest(value, alpha, beta) == IF value > alpha THEN value ELSE alpha

\* if (value > alpha) { if (value >= beta) break; else alpha = value; }
AlphaUpdate(value, alpha, beta) == IF value > alpha /\ value < beta THEN value ELSE alpha

\* bestValue = excludedMove ? alpha : ss->inCheck ? mated_in(ss->ply) : VALUE_DRAW
NoMoveValue(excludedMove, inCheck, alpha, ply) ==
    IF excludedMove THEN alpha ELSE IF inCheck THEN mated_in(ply) ELSE VALUE_DRAW

InitNode ==
    /\ EngineInit
    /\ tt = <<>>
    /\ board = <<>>
    /\ asp = <<>>
    /\ rec = <<>>
    /\ \E type \in {"Root", "PV", "NonPV"}, ply \in {0, 1, 3}, a \in NodeAlphas,
          w \in NodeWidths, inCheck \in BOOLEAN, excludedMove \in BOOLEAN,
          highTal \in BOOLEAN, legal \in 0..MaxLegal :
          /\ (type = "Root") = (ply = 0)
          /\ type = "Root" => legal > 0
          /\ type = "NonPV" => w = 1
          /\ excludedMove => type = "NonPV"
          /\ a + w <= VALUE_INFINITE \/ w = 2 * VALUE_INFINITE
          /\ aNode = [pc |-> "entry", type |-> type, ply |-> ply, inCheck |-> inCheck,
                      excludedMove |-> excludedMove, highTal |-> highTal, legal |-> legal,
                      left |-> legal, alpha |-> a, beta |-> Min(a + w, VALUE_INFINITE),
                      bestValue |-> -VALUE_INFINITE, bestMove |-> FALSE, moveCount |-> 0,
                      calls |-> {}, ret |-> VALUE_NONE, by |-> "none"]

\* the entry of search(): the game-cycle adjustment of alpha and Step 3
NodeStart ==
    /\ aNode.pc = "entry"
    /\ \E cycle \in BOOLEAN, n \in {0, 2} :
          LET root == aNode.type = "Root"
              a1 == IF ~root /\ cycle /\ aNode.alpha < VALUE_DRAW
                    THEN value_draw(n) ELSE aNode.alpha
              w == IF root THEN [alpha |-> a1, beta |-> aNode.beta]
                   ELSE MateDistance(aNode.ply, a1, aNode.beta)
          IN  aNode' =
                 IF a1 >= aNode.beta
                 THEN [aNode EXCEPT !.pc = "done", !.by = "cycle", !.alpha = a1, !.ret = a1]
                 ELSE IF w.alpha >= w.beta
                 THEN [aNode EXCEPT !.pc = "done", !.by = "step3", !.alpha = w.alpha, !.beta = w.beta,
                                    !.ret = w.alpha]
                 ELSE [aNode EXCEPT !.pc = "early", !.alpha = w.alpha, !.beta = w.beta]
    /\ UNCHANGED <<searchVars, game, tt, board, asp, rec>>

\* a call of search() or qsearch() with its window
NodeCall(pv, alpha, beta) == [pv |-> pv, alpha |-> alpha, beta |-> beta]

\* Steps 5 to 11 as far as they change the window or search with a window of
\* their own: the tablebase lower bound at a PV node, the qsearch of razoring,
\* the null move search, the verification search, the ProbCut searches; v is
\* the tablebase value, or eval
NodeEarly ==
    /\ aNode.pc = "early"
    /\ \E step \in {"none", "tablebase", "razoring", "nullMove", "verification", "probCut"},
          v \in NodeScores, improving \in BOOLEAN, back \in BOOLEAN :
          LET pv == PvNode(aNode.type)
              a == aNode.alpha
              b == aNode.beta
              pcb == ProbCutBeta(b, improving)
              on == [aNode EXCEPT !.pc = "loop"]
              leave(n) == IF back THEN [n EXCEPT !.pc = "done", !.by = "early", !.ret = v]
                        ELSE n
          IN  /\ step # "probCut" => ~improving
              /\ step \in {"none", "tablebase"} => ~back
              /\ CASE step = "none" -> aNode' = on
                   [] step = "tablebase" ->
                        /\ aNode.type # "Root" /\ ~aNode.excludedMove
                        /\ v < b /\ pv
                        /\ aNode' = [on EXCEPT !.bestValue = v, !.alpha = Max(a, v)]
                   [] step = "razoring" ->
                        /\ ~aNode.inCheck /\ v < a - RazorMargin
                        /\ back => v < a
                        /\ aNode' = leave([on EXCEPT !.calls = {NodeCall(FALSE, a - 1, a)}])
                   [] step = "nullMove" ->
                        /\ ~aNode.inCheck /\ ~pv /\ ~aNode.excludedMove /\ v >= b
                        /\ aNode' = leave([on EXCEPT !.calls = {NodeCall(FALSE, -b, -b + 1)}])
                   [] step = "verification" ->
                        /\ ~aNode.inCheck /\ ~pv /\ ~aNode.excludedMove /\ v >= b
                        /\ aNode' = leave([on EXCEPT !.calls = {NodeCall(FALSE, b - 1, b)}])
                   [] step = "probCut" ->
                        /\ ~aNode.inCheck /\ ~pv /\ Abs(b) < VALUE_TB_WIN_IN_MAX_PLY
                        /\ back => v >= pcb
                        /\ aNode' = leave([on EXCEPT !.calls = {NodeCall(FALSE, -pcb, -pcb + 1)}])
    /\ UNCHANGED <<searchVars, game, tt, board, asp, rec>>

\* one legal move of the move loop: counted, then skipped by Step 14 or made
\* and searched (zero window, then the PV window), undone, the stop check,
\* and the update of bestValue, bestMove and alpha
NodeMove ==
    /\ aNode.pc = "loop"
    /\ aNode.left > 0
    /\ LET n == [aNode EXCEPT !.moveCount = @ + 1, !.left = @ - 1, !.calls = {}]
           pv == PvNode(aNode.type)
       IN \/ /\ PruningAllowed(aNode.type, aNode.highTal, aNode.bestValue)
             /\ aNode' = n
          \/ \E v1 \in NodeScores, v2 \in NodeScores, s \in BOOLEAN, ttValue \in {-45, 45, VALUE_NONE} :
                LET zero == ~pv \/ n.moveCount > 1
                    singular == /\ ttValue # VALUE_NONE /\ n.moveCount = 1
                                /\ aNode.type # "Root" /\ ~aNode.excludedMove
                    full == pv /\ (n.moveCount = 1 \/ v1 > aNode.alpha)
                    value == IF full THEN v2 ELSE v1
                    calls == (IF zero THEN {NodeCall(FALSE, -(aNode.alpha + 1), -aNode.alpha)}
                              ELSE {})
                             \cup (IF full THEN {NodeCall(TRUE, -aNode.beta, -aNode.alpha)}
                                   ELSE {})
                             \cup (IF singular
                                   THEN {NodeCall(FALSE, SingularBeta(ttValue) - 1,
                                                  SingularBeta(ttValue))}
                                   ELSE {})
                    m == [n EXCEPT !.calls = calls]
                IN  /\ ~full => v2 = v1
                    /\ ~zero => v1 = v2
                    /\ ttValue # VALUE_NONE => singular
                    /\ aNode' =
                          IF s THEN [m EXCEPT !.pc = "done", !.by = "stop", !.ret = VALUE_ZERO]
                          ELSE IF value <= aNode.bestValue THEN m
                          ELSE IF value <= aNode.alpha THEN [m EXCEPT !.bestValue = value]
                          ELSE IF value >= aNode.beta
                          THEN [m EXCEPT !.bestValue = value, !.bestMove = TRUE, !.pc = "end",
                                         !.alpha = AlphaUpdate(value, aNode.alpha, aNode.beta)]
                          ELSE [m EXCEPT !.bestValue = value, !.bestMove = TRUE,
                                         !.alpha = AlphaUpdate(value, aNode.alpha, aNode.beta)]
    /\ UNCHANGED <<searchVars, game, tt, board, asp, rec>>

\* Step 21 and the return of bestValue
NodeEnd ==
    /\ aNode.pc = "end" \/ (aNode.pc = "loop" /\ aNode.left = 0)
    /\ LET bv == IF aNode.moveCount = 0
                 THEN NoMoveValue(aNode.excludedMove, aNode.inCheck, aNode.alpha, aNode.ply)
                 ELSE aNode.bestValue
       IN aNode' = [aNode EXCEPT !.pc = "done", !.by = "step21", !.bestValue = bv, !.ret = bv]
    /\ UNCHANGED <<searchVars, game, tt, board, asp, rec>>

NextNode == NodeStart \/ NodeEarly \/ NodeMove \/ NodeEnd

SpecNode == InitNode /\ [][NextNode]_vars

\* C22: a move loop that ends with moveCount == 0 gives mated_in(ply) in
\* check, VALUE_DRAW out of check, and alpha, above -VALUE_INFINITE, in a
\* singular search with an excluded move; moveCount is 0 only if no legal
\* move but the excluded one exists, and search() never returns
\* -VALUE_INFINITE.
C22_NoMoveValue ==
    aNode.pc = "done" =>
       /\ aNode.ret > -VALUE_INFINITE
       /\ aNode.ret < VALUE_INFINITE
       /\ (aNode.by = "step21" /\ aNode.moveCount = 0) =>
             /\ aNode.legal = 0
             /\ aNode.ret = IF aNode.excludedMove THEN aNode.alpha
                            ELSE IF aNode.inCheck THEN mated_in(aNode.ply)
                            ELSE VALUE_DRAW

\* a singular search whose only legal move is the excluded one returns alpha
C22_Witness ==
    /\ aNode.pc = "done"
    /\ aNode.by = "step21" /\ aNode.moveCount = 0
    /\ aNode.excludedMove
    /\ aNode.ret = aNode.alpha
    /\ aNode.ret = -2


\* ---------------------------------------------------------------------------
\* The null move of Step 9 (search.cpp 1147-1194), checked under SpecPly.
\* rec.null holds what Step 9 saw when it last made a null move.

NullMoveMade == rec # <<>> /\ rec.null # <<>>

\* the second alternative of the Shashin build's Step 9 is the one in force
NullByGuard(r) ==
    r.Shashin /\ ~isShashinHighMiddle(r.range) /\ isShashinPositionTal(r.range)

VerificationRunning ==
    \E i \in DOMAIN rec.stack : rec.stack[i].pc = "afterVerify"

\* the verification searches in progress
VerificationsRunning ==
    Cardinality({i \in DOMAIN rec.stack : rec.stack[i].pc = "afterVerify"})

\* C24: nmpMinPly is non-zero exactly while a verification search is running
\* (zero before it starts, non-zero for its duration, zero again after it
\* returns), and at most one verification search is running at a time.
C24_NmpMinPly ==
    rec # <<>> =>
        /\ rec.nmpMinPly # 0 <=> VerificationRunning
        /\ VerificationsRunning <= 1

\* the same in the build without Shashin, where the code keeps it
NmpMinPlyPlainBuild ==
    (rec # <<>> /\ ~rec.Shashin) =>
        /\ rec.nmpMinPly # 0 <=> VerificationRunning
        /\ VerificationsRunning <= 1


(***************************************************************************)
(* SpecExt: ss->doubleExtensions along one path of the search tree, in     *)
(* search.cpp's search and in the classic searches.  aNode.de is the stack *)
(* slots' counters, slot ply + 2 for the call at ply (the slot of ss - 1   *)
(* of the root is zero); aNode.path is the calls in progress.              *)
(***************************************************************************)
MaxExtPly == 13
MaxExtMoves == 2
MaxSlack == 1
MaxDeeper == 2

ExtVariants == {"search", "classic", "classicMate"}

\* a limit that is one too high
DoubleExtensionLimit_Twelve(variant) == 12

\* ss->doubleExtensions <= 11 (classic search: <= 9) of the double extension
DoubleExtensionLimit(variant) == IF variant = "classic" THEN 9 ELSE 11

\* ss->doubleExtensions <= 6 of doEvenDeeperSearch in the classic mate search
EvenDeeperLimit == 6

ExtFrame(ply, pv, excl) ==
    [ply |-> ply, pv |-> pv, excl |-> excl, pc |-> "entry", moveCount |-> 0]

ExtTop == aNode.path[Len(aNode.path)]

\* (ss - 1)->doubleExtensions and ss->doubleExtensions of the call at ply
ExtParent(de, ply) == de[ply + 1]
ExtOwn(de, ply) == de[ply + 2]

ExtSet(f) == [aNode.path EXCEPT ![Len(aNode.path)] = f]
ExtPop == SubSeq(aNode.path, 1, Len(aNode.path) - 1)

\* the return of the top call.  The slot of a call that has returned is dead
\* unless a call in progress shares it: every call writes ss->doubleExtensions
\* at Step 1 (920) before it reads it (1582), so the model forgets its value.
ExtReturn ==
    LET shared == /\ Len(aNode.path) > 1
                  /\ aNode.path[Len(aNode.path) - 1].ply = ExtTop.ply
    IN  [aNode EXCEPT !.path = ExtPop,
                      !.de = IF shared THEN @ ELSE [@ EXCEPT ![ExtTop.ply + 2] = 0]]

\* the call of search(pos, ss + 1, ...) below f fits the bounds of the model
ExtFits(f, de) ==
    /\ f.ply + 1 <= MaxExtPly
    /\ f.ply + 1 - ExtOwn(de, f.ply) <= MaxSlack

\* f calls search(pos, ss + 1, ...); a call outside the bounds of the model is
\* one that returns at once at its Step 2
ExtCall(f, de, pv) ==
    IF ExtFits(f, de) THEN Append(ExtSet(f), ExtFrame(f.ply + 1, pv, FALSE))
    ELSE ExtSet(f)

\* the calls below the top one that are searching a later move of theirs
ExtLater ==
    Cardinality({i \in 1..(Len(aNode.path) - 1) : aNode.path[i].moveCount > 1})

InitExt ==
    /\ EngineInit
    /\ tt = <<>>
    /\ board = <<>>
    /\ asp = <<>>
    /\ rec = <<>>
    /\ \E variant \in ExtVariants :
          aNode = [variant |-> variant,
                   de |-> [i \in 1..(MaxExtPly + 2) |-> 0],
                   path |-> <<ExtFrame(0, TRUE, FALSE)>>]

\* Step 2 returns, or Step 1 to 3: ss->doubleExtensions = (ss - 1)->doubleExtensions
ExtEntry ==
    /\ aNode # <<>> /\ aNode.path # <<>>
    /\ ExtTop.pc = "entry"
    /\ LET f == ExtTop IN
       \/ /\ f.ply > 0
          /\ aNode' = ExtReturn
       \/ aNode' = [aNode EXCEPT !.de[f.ply + 2] = ExtParent(aNode.de, f.ply),
                                 !.path = ExtSet([f EXCEPT !.pc = "moves"])]
    /\ UNCHANGED <<searchVars, game, tt, board, asp, rec>>

\* one pass of the move loop up to the search of the move: the singular search
\* on ss for the TT move, or a move without double extension; or the return
ExtMove ==
    /\ aNode # <<>> /\ aNode.path # <<>>
    /\ ExtTop.pc = "moves"
    /\ LET f == ExtTop IN
       \/ aNode' = ExtReturn
       \/ /\ f.ply > 0 /\ ~f.excl /\ f.moveCount = 0
          /\ aNode' = [aNode EXCEPT !.path =
                          Append(ExtSet([f EXCEPT !.pc = "afterSingular", !.excl = TRUE]),
                                 ExtFrame(f.ply, FALSE, TRUE))]
       \/ /\ f.moveCount < MaxExtMoves
          /\ LET de == [aNode.de EXCEPT ![f.ply + 2] = ExtParent(aNode.de, f.ply)]
                 lmr == aNode.variant = "classicMate" /\ f.moveCount + 1 > 1
             IN  \E pv \in BOOLEAN :
                    /\ pv => f.pv /\ ~lmr
                    /\ aNode' = [aNode EXCEPT
                          !.de = de,
                          !.path = ExtCall([f EXCEPT !.moveCount = @ + 1,
                                                     !.pc = IF lmr THEN "afterLMR"
                                                            ELSE "moves"], de, pv)]
    /\ UNCHANGED <<searchVars, game, tt, board, asp, rec>>

\* after the singular search: multi-cut returns; otherwise the extension of
\* the TT move, the counter, and the search of the move
ExtAfterSingular ==
    /\ aNode # <<>> /\ aNode.path # <<>>
    /\ ExtTop.pc = "afterSingular"
    /\ LET f == [ExtTop EXCEPT !.excl = FALSE] IN
       \/ aNode' = ExtReturn
       \/ \E tight \in BOOLEAN, pv \in BOOLEAN :
             LET double == /\ ~f.pv /\ tight
                           /\ ExtOwn(aNode.de, f.ply) <= DoubleExtensionLimit(aNode.variant)
                 de == [aNode.de EXCEPT ![f.ply + 2] =
                           ExtParent(aNode.de, f.ply) + (IF double THEN 1 ELSE 0)]
             IN  /\ pv => f.pv
                 /\ aNode' = [aNode EXCEPT
                       !.de = de,
                       !.path = ExtCall([f EXCEPT !.moveCount = 1, !.pc = "moves"], de, pv)]
    /\ UNCHANGED <<searchVars, game, tt, board, asp, rec>>

\* the classic mate search after a reduced search that failed high:
\* doEvenDeeperSearch counts as a double extension; the full depth search
ExtAfterLMR ==
    /\ aNode # <<>> /\ aNode.path # <<>>
    /\ ExtTop.pc = "afterLMR"
    /\ LET f == ExtTop IN
       \/ aNode' = [aNode EXCEPT !.path = ExtSet([f EXCEPT !.pc = "moves"])]
       \/ \E high \in BOOLEAN, again \in BOOLEAN :
             LET doEvenDeeperSearch == high /\ ExtOwn(aNode.de, f.ply) <= EvenDeeperLimit
                 de == [aNode.de EXCEPT ![f.ply + 2] = @ + (IF doEvenDeeperSearch THEN 1 ELSE 0)]
             IN  /\ again => ExtLater < MaxDeeper
                 /\ aNode' = [aNode EXCEPT
                    !.de = de,
                    !.path = IF again THEN ExtCall([f EXCEPT !.pc = "moves"], de, FALSE)
                             ELSE ExtSet([f EXCEPT !.pc = "moves"])]
    /\ UNCHANGED <<searchVars, game, tt, board, asp, rec>>

NextExt == ExtEntry \/ ExtMove \/ ExtAfterSingular \/ ExtAfterLMR

SpecExt == InitExt /\ [][NextExt]_vars

\* the calls in progress that are past Step 1
ExtStarted == {i \in DOMAIN aNode.path : aNode.path[i].pc # "entry"}

\* C25: ss->doubleExtensions never exceeds 12 in any stack slot, and in every
\* call in progress it is the parent's counter or the parent's counter plus
\* one.
C25_DoubleExtensions ==
    aNode # <<>> =>
        /\ \A i \in DOMAIN aNode.de : aNode.de[i] <= 12
        /\ \A i \in ExtStarted :
              LET ply == aNode.path[i].ply IN
              /\ ExtOwn(aNode.de, ply) >= ExtParent(aNode.de, ply)
              /\ ExtOwn(aNode.de, ply) <= ExtParent(aNode.de, ply) + 1

\* a frame with twelve double extensions behind it asks for another one
C25_Witness ==
    /\ aNode # <<>> /\ aNode.path # <<>>
    /\ ExtTop.pc = "afterSingular"
    /\ ExtOwn(aNode.de, ExtTop.ply) = 12


(***************************************************************************)
(* SpecCut: the early returns of search() and qsearch() (search.cpp), each *)
(* with the test that guards it and the value it returns.  aNode is one    *)
(* early return.                                                           *)
(***************************************************************************)
CutSites == {"ttCutoff", "futility", "nullMove", "probCut", "probCutInCheck",
             "multiCut", "razoring", "qsTtCutoff", "qsStandPat", "qsEnd"}

\* alpha, beta and the values the tests look at
CutValues == {1 - VALUE_INFINITE, mated_in(3), VALUE_TB_LOSS_IN_MAX_PLY, -500, -7, -6, -5, -2,
              -1, 0, 1, 2, 5, 6, 7, 500, VALUE_TB_WIN_IN_MAX_PLY, mate_in(3), VALUE_INFINITE - 1}

\* futility_margin(...) + (ss - 1)->statScore / 337
CutMargins == {-600, 0, 100}

\* the bound of a TT entry allows the cutoff:
\* tte->bound() & (ttValue >= beta ? BOUND_LOWER : BOUND_UPPER)
CutBound(bound, ttValue, beta) ==
    IF ttValue >= beta THEN bound \in {"LOWER", "EXACT"} ELSE bound \in {"UPPER", "EXACT"}

\* Step 8 without the test eval >= beta
ChildFutility_NoEvalTest(eval, beta, margin) == eval - margin >= beta

\* Step 8: eval - futility_margin(...) - (ss - 1)->statScore / 337 >= beta
\* && eval >= beta
ChildFutility(eval, beta, margin) == eval - margin >= beta /\ eval >= beta

\* the test that guards the return at a site; v is the value it looks at
CutTaken(site, v, alpha, beta, bound, margin, improving) ==
    CASE site = "ttCutoff"       -> CutBound(bound, v, beta)
      [] site = "futility"       -> ChildFutility(v, beta, margin)
      [] site = "nullMove"       -> v >= beta /\ v < VALUE_TB_WIN_IN_MAX_PLY
      [] site = "probCut"        -> /\ Abs(beta) < VALUE_TB_WIN_IN_MAX_PLY
                                    /\ v >= ProbCutBeta(beta, improving)
      [] site = "probCutInCheck" -> /\ v >= beta + 425
                                    /\ Abs(v) < VALUE_TB_WIN_IN_MAX_PLY
                                    /\ Abs(beta) < VALUE_TB_WIN_IN_MAX_PLY
                                    /\ bound \in {"LOWER", "EXACT"}
      [] site = "multiCut"       -> v >= beta
      [] site = "razoring"       -> v < alpha
      [] site = "qsTtCutoff"     -> CutBound(bound, v, beta)
      [] site = "qsStandPat"     -> v >= beta
      [] site = "qsEnd"          -> v > -VALUE_INFINITE

\* the value returned at a site
CutReturn(site, v, beta, improving) ==
    CASE site = "ttCutoff" ->
            IF v >= beta /\ Abs(v) < VALUE_TB_WIN_IN_MAX_PLY
            THEN CDiv(v * 3 + beta, 4) ELSE v
      [] site = "futility" ->
            IF beta > VALUE_TB_LOSS_IN_MAX_PLY THEN CDiv(v + beta, 2) ELSE v
      [] site = "probCut" ->
            IF Abs(v) < VALUE_TB_WIN_IN_MAX_PLY
            THEN v - (ProbCutBeta(beta, improving) - beta) ELSE v
      [] site = "probCutInCheck" -> beta + 425
      [] site = "qsEnd" ->
            IF Abs(v) < VALUE_TB_WIN_IN_MAX_PLY /\ v >= beta
            THEN CDiv(3 * v + beta, 4) ELSE v
      [] OTHER -> v

\* one early return: the site, the window, the value looked at (ttValue, eval,
\* nullValue, the ProbCut search's value, singularBeta, the razoring
\* qsearch's value, bestValue) and the value returned
SearchCut ==
    /\ aNode = <<>>
    /\ \E site \in CutSites, v \in CutValues, alpha \in CutValues, beta \in CutValues,
          bound \in {"UPPER", "LOWER", "EXACT"}, margin \in CutMargins, improving \in BOOLEAN :
          /\ alpha < beta
          /\ site \notin {"ttCutoff", "qsTtCutoff", "probCutInCheck"} => bound = "EXACT"
          /\ site # "futility" => margin = 0
          /\ site # "probCut" => ~improving
          /\ site \in {"razoring", "nullMove"} => beta = alpha + 1
          /\ CutTaken(site, v, alpha, beta, bound, margin, improving)
          /\ aNode' = [site |-> site, v |-> v, alpha |-> alpha, beta |-> beta,
                       ret |-> CutReturn(site, v, beta, improving)]
    /\ UNCHANGED <<searchVars, game, tt, board, asp, rec>>

SpecCut == InitStep2 /\ [][SearchCut]_vars

\* the return is a fail high: at the sites that also return a fail low (the TT
\* cutoffs, the end of qsearch) the value looked at is at least beta
CutFailHigh ==
    /\ aNode # <<>>
    /\ aNode.site # "razoring"
    /\ aNode.site \in {"ttCutoff", "qsTtCutoff", "qsEnd"} => aNode.v >= aNode.beta

\* C26: every fail-high early return (TT cutoff, child futility, null move,
\* ProbCut, in-check ProbCut, multi-cut, the beta cutoffs of qsearch) returns
\* a value >= beta, and razoring returns a value < alpha.
C26_FailHigh ==
    /\ CutFailHigh => aNode.ret >= aNode.beta
    /\ (aNode # <<>> /\ aNode.site = "razoring") => aNode.ret < aNode.alpha

\* a blend of a negative value and a negative beta that does not divide evenly
C26_Witness ==
    /\ CutFailHigh
    /\ aNode.site \in {"ttCutoff", "futility", "qsEnd"}
    /\ aNode.v < 0 /\ aNode.v > aNode.beta
    /\ aNode.ret # aNode.v
    /\ aNode.ret * 4 # aNode.v * 3 + aNode.beta
    /\ aNode.ret * 2 # aNode.v + aNode.beta


\* ---------------------------------------------------------------------------
\* The windows of search() and qsearch(), checked under SpecNode.

\* -VALUE_INFINITE <= alpha < beta <= VALUE_INFINITE, and beta == alpha + 1
\* outside the PV
WindowOk(pv, alpha, beta) ==
    /\ -VALUE_INFINITE <= alpha
    /\ alpha < beta
    /\ beta <= VALUE_INFINITE
    /\ ~pv => beta = alpha + 1

\* C27: the window of a call of search() satisfies -VALUE_INFINITE <= alpha <
\* beta <= VALUE_INFINITE, with beta == alpha + 1 at a non-PV node, when the
\* call starts, after the game-cycle adjustment, the mate-distance tightening
\* and the tablebase adjustment, and after every update of alpha in the move
\* loop; and so does the window of every call of search() or qsearch() the
\* node makes.
C27_Windows ==
    /\ aNode.pc # "done" => WindowOk(PvNode(aNode.type), aNode.alpha, aNode.beta)
    /\ \A call \in aNode.calls : WindowOk(call.pv, call.alpha, call.beta)

\* a PV node whose alpha was raised by a move searches the next move with the
\* zero window at the new alpha
C27_Witness ==
    /\ aNode.pc = "loop"
    /\ aNode.type = "PV"
    /\ aNode.bestMove
    /\ aNode.moveCount = 2
    /\ aNode.alpha = 0 /\ aNode.beta = 38
    /\ NodeCall(FALSE, -1, 0) \in aNode.calls


(***************************************************************************)
(* SpecQs: one call of qsearch() (search.cpp 1941-2225): the game cycle,   *)
(* Step 2, the TT cutoff, the stand pat, the move loop with its pruning,   *)
(* the mate check and the return.  aNode is the call.                      *)
(***************************************************************************)
MaxQsMoves == 3

QsAlphas == {-300, -1, 0, 200}
QsWidths == {1, 40}
QsEvals == {-300, 0, 57, 250}
QsTtValues == {-400, 100, VALUE_NONE}
QsScores == {-500, 20, 210, 260}

\* PieceValue of the piece on the target square
QsPieceValues == {0, 208}

\* futilityBase = ss->staticEval + 182
QsFutilityMargin == 182

\* bestValue = futilityValue in place of the maximum
QsFutility_Assign(bestValue, futilityValue) == futilityValue

\* bestValue = std::max(bestValue, futilityValue)
QsFutility(bestValue, futilityValue) == Max(bestValue, futilityValue)

\* ttValue can be used as a better position evaluation:
\* tte->bound() & (ttValue > bestValue ? BOUND_LOWER : BOUND_UPPER)
QsStandPat(staticEval, ttHit, ttValue, bound) ==
    IF /\ ttHit /\ ttValue # VALUE_NONE
       /\ IF ttValue > staticEval THEN bound \in {"LOWER", "EXACT"}
          ELSE bound \in {"UPPER", "EXACT"}
    THEN ttValue ELSE staticEval

InitQs ==
    /\ EngineInit
    /\ tt = <<>>
    /\ board = <<>>
    /\ asp = <<>>
    /\ rec = <<>>
    /\ \E pv \in BOOLEAN, ply \in {1, MAX_PLY}, inCheck \in BOOLEAN, legal \in 0..MaxQsMoves,
          a \in QsAlphas, w \in QsWidths, material \in BOOLEAN :
          /\ ~pv => w = 1
          /\ aNode = [pc |-> "entry", pv |-> pv, ply |-> ply, inCheck |-> inCheck,
                      legal |-> legal, left |-> legal, material |-> material,
                      alpha |-> a, beta |-> a + w,
                      staticEval |-> VALUE_NONE, standPat |-> VALUE_NONE,
                      bestValue |-> -VALUE_INFINITE, futilityBase |-> -VALUE_INFINITE,
                      moveCount |-> 0, quietCheckEvasions |-> 0,
                      ret |-> VALUE_NONE, by |-> "none"]

\* qsearch() up to the move loop: the game cycle, Step 2, the TT cutoff of
\* Step 3 and the static evaluation and stand pat of Step 4.  A position in
\* check without a legal move is not a draw by the fifty-move rule, and has no
\* earlier occurrence to repeat.
QsStart ==
    /\ aNode.pc = "entry"
    /\ \E cycle \in BOOLEAN, n \in {0, 2}, draw \in BOOLEAN, ttHit \in BOOLEAN,
          ttValue \in QsTtValues, bound \in {"UPPER", "LOWER"}, deep \in BOOLEAN,
          eval \in QsEvals :
          LET a1 == IF cycle /\ aNode.alpha < VALUE_DRAW THEN value_draw(n) ELSE aNode.alpha
              sp == QsStandPat(eval, ttHit, ttValue, bound)
              leave(by, v) == [aNode EXCEPT !.pc = "done", !.by = by, !.ret = v, !.alpha = a1]
          IN  /\ (aNode.inCheck /\ aNode.legal = 0) => ~draw /\ ~cycle
              /\ ~ttHit => ttValue = VALUE_NONE /\ bound = "UPPER" /\ ~deep
              /\ aNode' =
                   IF a1 >= aNode.beta THEN leave("cycle", a1)
                   ELSE IF draw \/ aNode.ply >= MAX_PLY
                   THEN leave("step2", IF aNode.ply >= MAX_PLY /\ ~aNode.inCheck
                                       THEN eval ELSE VALUE_DRAW)
                   ELSE IF /\ ~aNode.pv /\ deep /\ ttValue # VALUE_NONE
                           /\ CutBound(bound, ttValue, aNode.beta)
                   THEN leave("ttCutoff", ttValue)
                   ELSE IF aNode.inCheck
                   THEN [aNode EXCEPT !.pc = "loop", !.alpha = a1]
                   ELSE IF sp >= aNode.beta
                   THEN [leave("standPat", sp) EXCEPT !.staticEval = eval, !.standPat = sp,
                                                      !.bestValue = sp]
                   ELSE [aNode EXCEPT !.pc = "loop", !.staticEval = eval, !.standPat = sp,
                                      !.bestValue = sp, !.alpha = Max(a1, sp),
                                      !.futilityBase = eval + QsFutilityMargin]
    /\ UNCHANGED <<searchVars, game, tt, board, asp, rec>>

\* one legal move of the move loop: counted, pruned by Step 6 or made,
\* searched and undone, and the update of bestValue and alpha
QsMove ==
    /\ aNode.pc = "loop"
    /\ aNode.left > 0
    /\ LET n == [aNode EXCEPT !.moveCount = @ + 1, !.left = @ - 1]
           prunable == aNode.bestValue > VALUE_TB_LOSS_IN_MAX_PLY /\ aNode.material
           futile == prunable /\ aNode.futilityBase > VALUE_TB_LOSS_IN_MAX_PLY
       IN \/ /\ futile /\ n.moveCount > 2
             /\ aNode' = n
          \/ \E piece \in QsPieceValues :
                LET futilityValue == aNode.futilityBase + piece IN
                /\ futile /\ futilityValue <= aNode.alpha
                /\ aNode' = [n EXCEPT !.bestValue = QsFutility(@, futilityValue)]
          \/ /\ futile /\ aNode.futilityBase <= aNode.alpha
             /\ aNode' = [n EXCEPT !.bestValue = Max(@, aNode.futilityBase)]
          \/ /\ futile /\ aNode.futilityBase > aNode.alpha
             /\ aNode' = [n EXCEPT !.bestValue = aNode.alpha]
          \/ /\ prunable /\ aNode.quietCheckEvasions > 1
             /\ aNode' = [n EXCEPT !.pc = "end"]
          \/ /\ prunable
             /\ aNode' = n
          \/ \E value \in QsScores, capture \in BOOLEAN :
                LET m == [n EXCEPT !.quietCheckEvasions =
                                       @ + (IF ~capture /\ aNode.inCheck THEN 1 ELSE 0)]
                IN  aNode' =
                       IF value <= aNode.bestValue THEN m
                       ELSE IF value <= aNode.alpha THEN [m EXCEPT !.bestValue = value]
                       ELSE IF value >= aNode.beta
                       THEN [m EXCEPT !.bestValue = value, !.pc = "end"]
                       ELSE [m EXCEPT !.bestValue = value, !.alpha = value]
    /\ UNCHANGED <<searchVars, game, tt, board, asp, rec>>

\* Step 9, the blend of a fail high, and the return
QsEnd ==
    /\ aNode.pc = "end" \/ (aNode.pc = "loop" /\ aNode.left = 0)
    /\ LET bv == aNode.bestValue IN
       aNode' =
          IF aNode.inCheck /\ bv = -VALUE_INFINITE
          THEN [aNode EXCEPT !.pc = "done", !.by = "step9", !.ret = mated_in(aNode.ply)]
          ELSE [aNode EXCEPT !.pc = "done", !.by = "end",
                             !.ret = CutReturn("qsEnd", bv, aNode.beta, FALSE)]
    /\ UNCHANGED <<searchVars, game, tt, board, asp, rec>>

NextQs == QsStart \/ QsMove \/ QsEnd

SpecQs == InitQs /\ [][NextQs]_vars

\* the call has returned from Step 4 or later
QsSearched == aNode.pc = "done" /\ aNode.by \in {"standPat", "end", "step9"}

\* C28: a qsearch() call that gets past the TT lookup returns the draw score
\* VALUE_DRAW on a stalemate position, and mated_in(ply) in check without a
\* legal move; the mate check of Step 9 returns mated_in(ply) only when there
\* is no legal move.
C28_QsearchNoMoves ==
    QsSearched =>
       /\ (~aNode.inCheck /\ aNode.legal = 0) => aNode.ret = VALUE_DRAW
       /\ (aNode.inCheck /\ aNode.legal = 0) => aNode.ret = mated_in(aNode.ply)
       /\ aNode.by = "step9" => aNode.legal = 0

\* the part of it about the position in check
QsMateOnlyWithoutMoves ==
    QsSearched =>
       /\ (aNode.inCheck /\ aNode.legal = 0) => aNode.ret = mated_in(aNode.ply)
       /\ aNode.by = "step9" => aNode.legal = 0 /\ aNode.inCheck

\* the statement as the specification has it: at least ss->staticEval
C29_Original ==
    (QsSearched /\ ~aNode.inCheck) => aNode.ret >= aNode.staticEval

\* C29: a qsearch() call out of check that gets past the TT lookup returns at
\* least its stand-pat value: ss->staticEval, or ttValue where the bound of
\* the TT entry makes it the better evaluation, which may be below
\* ss->staticEval.
C29_StandPat ==
    (QsSearched /\ ~aNode.inCheck) => aNode.ret >= aNode.standPat

\* a move pruned by futility and a fail high of a later move, blended
C29_Witness ==
    /\ QsSearched /\ ~aNode.inCheck
    /\ aNode.by = "end"
    /\ aNode.moveCount = 2
    /\ aNode.standPat = 100 /\ aNode.staticEval = -300
    /\ aNode.ret > aNode.standPat
    /\ aNode.ret < aNode.bestValue


\* ---------------------------------------------------------------------------
\* The reads of Book::find_move (book.cpp 110-145), checked under SpecMoves:
\* go calls it on the book and the position of any state.

\* the elements find_move reads: list[0] of a line in the initial position;
\* else list[game_ply - 1] of every line longer than game_ply, and
\* list[game_ply] where the key matched.  at is the index as the code counts
\* it, from 0.
FindReads(bk, p) ==
    IF bk = <<>> THEN {}
    ELSE IF p = StartPos THEN {[line |-> i, at |-> 0] : i \in 1..Len(bk)}
    ELSE LET long == {i \in 1..Len(bk) : Len(bk[i]) > game_ply(p)}
         IN  {[line |-> i, at |-> game_ply(p) - 1] : i \in long}
             \cup {[line |-> i, at |-> game_ply(p)] :
                      i \in {k \in long : game_ply(p) >= 1 /\ bk[k][game_ply(p)].hashKey = p}}

\* the moves that directly follow the position p in a line of the book
BookFollowers(bk, p) ==
    UNION {{bk[i][k + 1].move : k \in {n \in 1..(Len(bk[i]) - 1) : bk[i][n].hashKey = p}} :
              i \in 1..Len(bk)}

\* C30: Book::find_move reads list[0], list[game_ply - 1] and list[game_ply]
\* only where the line has these elements, and returns Move::none(), or, out
\* of the initial position, a move that follows a position with the key of
\* pos in some line.
C30_BookReads ==
    /\ \A r \in FindReads(game.book, game.pos) :
          r.at >= 0 /\ r.at < Len(game.book[r.line])
    /\ game.pos # StartPos =>
          \A m \in FindMoves(game.book, game.pos) :
             m = MoveNone \/ m \in BookFollowers(game.book, game.pos)

====
